---------------------------- MODULE Spec2Model ----------------------------
(***************************************************************************)
(* Model of the mail-forwarder provisioning scripts                        *)
(* (mail-forwarder/scripts): the Configuration object built by             *)
(* config.from_environment, Configuration.validate() with its smart        *)
(* defaults, and the run()/show_config() commands of entrypoint.py that    *)
(* hand the validated Configuration to the collaborator steps.             *)
(*                                                                         *)
(* Python strings are modelled as sequences of one-character strings, so   *)
(* that split(), truthiness and set membership are computed as the code    *)
(* computes them.  Optional[str] fields are either None or a string.       *)
(***************************************************************************)
EXTENDS Integers, Sequences, FiniteSets, TLC

VARIABLES
    pc,        \* position of the process: in main()/run()/initialize(), or "method"
    cmd,       \* the argparse command chosen in main()
    config,    \* the Configuration object
    pre,       \* the Configuration as it was just before the latest validate() call
    err,       \* outcome of the latest validate() call (NotCalled before the first)
    calls,     \* number of validate() calls made so far
    okcalls,   \* number of validate() calls that returned without raising
    steps,     \* collaborator steps invoked so far, in order
    tools,     \* external tools invoked so far
    rc,        \* return code of run()/show_config(), NoRc while running
    env,       \* os.environ as from_environment reads it: name -> value
    rule,      \* arguments of the ForwardingRule(...) call under study
    built,     \* outcome of that call: NotBuilt, "ok" or "ValueError"
    sys_stdout, \* the stream sys.stdout names: "stdout" or "buffer"
    written,   \* lines written to the process's standard output so far
    fs,        \* the file system: path -> content, None when there is no file
    service_callbacks,   \* utils.service_callbacks: the registered services
    service_check_funcs, \* utils.service_check_funcs: those with a check
    checks,    \* what each service's check function returns
    ops,       \* the provisioning calls made so far, each with what it did
    now,       \* time.time(), in seconds
    start_time, \* start_time of wait_for_supervisor
    sock,      \* whether /var/run/supervisor.sock exists
    seen       \* whether a poll of wait_for_supervisor found the socket

vars == <<pc, cmd, config, pre, err, calls, okcalls, steps, tools, rc,
          env, rule, built, sys_stdout, written,
          fs, service_callbacks, service_check_funcs, checks, ops,
          now, start_time, sock, seen>>

\* the file system and the callback registry of utils.py
sysvars == <<fs, service_callbacks, service_check_funcs, checks, ops>>

\* the clock and the supervisor socket
waitvars == <<now, start_time, sock, seen>>

\* state read and written only by the environment and constructor studies
envvars == <<env, rule, built>>

\* state of the process's output streams
outvars == <<sys_stdout, written>>

-----------------------------------------------------------------------------
(* Bounds of the model                                                     *)

MaxRules == 2        \* longest forwarding-rule list
MaxCalls == 2        \* validate() calls on one Configuration object

-----------------------------------------------------------------------------
(* Python values                                                           *)

None == <<"None">>                      \* Python's None (no character is "None")
Truthy(x) == x # None /\ x # <<>>       \* bool(x) of an Optional[str]

WhiteSpace == {" ", "\t", "\n", "\r"}   \* the characters \s matches

SeqsUpTo(A, n) == UNION {[1..k -> A] : k \in 0..n}

Contains(s, ch) == \E i \in 1..Len(s) : s[i] = ch    \* ch in s

\* str.find(ch) from position i, 1-based, 0 when absent
RECURSIVE find(_, _, _)
find(s, ch, i) ==
    IF i > Len(s) THEN 0
    ELSE IF s[i] = ch THEN i
    ELSE find(s, ch, i + 1)

\* s.split(sep): every piece between separators
RECURSIVE split(_, _)
split(s, sep) ==
    LET i == find(s, sep, 1) IN
    IF i = 0 THEN <<s>>
    ELSE <<SubSeq(s, 1, i - 1)>> \o split(SubSeq(s, i + 1, Len(s)), sep)

\* s.split(sep, 1): at most one split, at the first separator
split1(s, sep) ==
    LET i == find(s, sep, 1) IN
    IF i = 0 THEN <<s>>
    ELSE <<SubSeq(s, 1, i - 1), SubSeq(s, i + 1, Len(s))>>

-----------------------------------------------------------------------------
(* ForwardingRule (config.py 20-42)                                        *)

\* [^@\s]+ : a non-empty run without '@' and without whitespace
NoAtNoSpace(s) ==
    Len(s) > 0 /\ \A i \in 1..Len(s) : s[i] # "@" /\ s[i] \notin WhiteSpace

\* [^@\s]+\.[^@\s]+ : the domain part
DomainPart(s) ==
    NoAtNoSpace(s) /\ \E k \in 2..(Len(s) - 1) : s[k] = "."

\* '$' of re.match also matches just before one trailing newline
Chomp(s) ==
    IF Len(s) > 0 /\ s[Len(s)] = "\n" THEN {s, SubSeq(s, 1, Len(s) - 1)} ELSE {s}

\* re.match(r'^[^@\s]+@[^@\s]+\.[^@\s]+$', s)
MatchEmail(s) ==
    \E t \in Chomp(s) :
        LET i == find(t, "@", 1) IN
        /\ i > 1
        /\ NoAtNoSpace(SubSeq(t, 1, i - 1))
        /\ DomainPart(SubSeq(t, i + 1, Len(t)))

\* re.match(r'^(\*|\*\.[^@\s]+)@[^@\s]+\.[^@\s]+$', s)
MatchWildcard(s) ==
    \E t \in Chomp(s) :
        LET i == find(t, "@", 1)
            local == SubSeq(t, 1, i - 1) IN
        /\ i > 1
        /\ \/ local = <<"*">>
           \/ /\ Len(local) > 2
              /\ local[1] = "*" /\ local[2] = "."
              /\ NoAtNoSpace(SubSeq(local, 3, Len(local)))
        /\ DomainPart(SubSeq(t, i + 1, Len(t)))

\* ForwardingRule.__post_init__ returns without raising
PostInitOK(r) ==
    /\ IF r.is_wildcard THEN MatchWildcard(r.source) ELSE MatchEmail(r.source)
    /\ MatchEmail(r.destination)

\* ForwardingRule.domain
RuleDomain(r) ==
    IF Contains(r.source, "@") THEN split(r.source, "@")[2] ELSE None


-----------------------------------------------------------------------------
(* Configuration.validate (config.py 133-181)                              *)

NoError == "none"
NotCalled == "not called"
ErrHostname == "SMTP hostname cannot be empty"
ErrNoRules == "No forwarding rules defined"
ErrTlsEmail == "TLS is enabled but no email provided for Let's Encrypt"
ErrRelay == "Relay username provided but no password"

\* faulty variant of HostnameMissing: the hostname test left out
HostnameMissing_dropped(c) == FALSE

\* line 136: not self.smtp.hostname
HostnameMissing(c) == ~Truthy(c.smtp.hostname)

\* faulty variant of RulesMissing: the rule-list test left out
RulesMissing_dropped(c) == FALSE

\* line 140: not self.forwarding_rules
RulesMissing(c) == Len(c.forwarding_rules) = 0

\* faulty variant of hostname_domain: rsplit, the text after the last dot
hostname_domain_rsplit(h) ==
    IF ~Contains(h, ".") THEN h
    ELSE LET i == CHOOSE k \in 1..Len(h) :
                      h[k] = "." /\ \A j \in (k + 1)..Len(h) : h[j] # "."
         IN SubSeq(h, i + 1, Len(h))

\* line 151: hostname.split('.', 1)[-1] if '.' in hostname else hostname
hostname_domain(h) ==
    IF Contains(h, ".") THEN LET p == split1(h, ".") IN p[Len(p)] ELSE h

\* lines 144-152: the rule domains that are truthy, plus the hostname domain
all_domains(c) ==
    {RuleDomain(c.forwarding_rules[i]) : i \in
        {k \in 1..Len(c.forwarding_rules) : Truthy(RuleDomain(c.forwarding_rules[k]))}}
    \cup {hostname_domain(c.smtp.hostname)}

\* faulty variant of DeriveDkim: the 'not self.dkim.domains' guard left out
DeriveDkim_unguarded(c, all) ==
    IF c.dkim.enabled THEN [c EXCEPT !.dkim.domains = all] ELSE c

\* lines 155-157
DeriveDkim(c, all) ==
    IF c.dkim.domains = {} /\ c.dkim.enabled
    THEN [c EXCEPT !.dkim.domains = all]
    ELSE c

\* faulty variant of DeriveTls: the add(hostname) of line 162 left out
DeriveTls_nohost(c, all) ==
    IF c.tls.domains = {} /\ c.tls.enabled
    THEN [c EXCEPT !.tls.domains = c.tls.domains \cup all]
    ELSE c

\* lines 160-167: add(hostname), then update(all_domains)
DeriveTls(c, all) ==
    IF c.tls.domains = {} /\ c.tls.enabled
    THEN [c EXCEPT !.tls.domains = (c.tls.domains \cup {c.smtp.hostname}) \cup all]
    ELSE c

\* faulty variant of DeriveSrs: defaults to the last label of the hostname
DeriveSrs_parent(c) ==
    IF c.srs.enabled /\ ~Truthy(c.srs.domain)
    THEN [c EXCEPT !.srs.domain = hostname_domain_rsplit(c.smtp.hostname)]
    ELSE c

\* faulty variant of DeriveSrs: the 'not self.srs.domain' guard left out,
\* the domain prefixed with "srs." on every call
DeriveSrs_unguarded(c) ==
    IF c.srs.enabled
    THEN [c EXCEPT !.srs.domain = <<"s", "r", "s", ".">> \o
            (IF Truthy(c.srs.domain) THEN c.srs.domain ELSE c.smtp.hostname)]
    ELSE c

\* lines 170-172
DeriveSrs(c) ==
    IF c.srs.enabled /\ ~Truthy(c.srs.domain)
    THEN [c EXCEPT !.srs.domain = c.smtp.hostname]
    ELSE c

\* line 175: self.tls.enabled and not self.tls.email
TlsEmailMissing(c) == c.tls.enabled /\ ~Truthy(c.tls.email)

\* faulty variant of RelayPasswordMissing: the relay_host test left out
RelayPasswordMissing_nohost(c) ==
    Truthy(c.smtp.relay_username) /\ ~Truthy(c.smtp.relay_password)

\* lines 179-180
RelayPasswordMissing(c) ==
    /\ Truthy(c.smtp.relay_host)
    /\ Truthy(c.smtp.relay_username) /\ ~Truthy(c.smtp.relay_password)

\* faulty variant of validate: the TLS e-mail check made before the defaults
validate_checkfirst(c) ==
    IF HostnameMissing(c) THEN [config |-> c, error |-> ErrHostname]
    ELSE IF RulesMissing(c) THEN [config |-> c, error |-> ErrNoRules]
    ELSE IF TlsEmailMissing(c) THEN [config |-> c, error |-> ErrTlsEmail]
    ELSE LET all == all_domains(c)
             c3 == DeriveSrs(DeriveTls(DeriveDkim(c, all), all)) IN
         IF RelayPasswordMissing(c3) THEN [config |-> c3, error |-> ErrRelay]
         ELSE [config |-> c3, error |-> NoError]

\* validate(): the Configuration object as the call leaves it, and the
\* ValueError it raised (NoError when it returned)
validate(c) ==
    IF HostnameMissing(c) THEN [config |-> c, error |-> ErrHostname]
    ELSE IF RulesMissing(c) THEN [config |-> c, error |-> ErrNoRules]
    ELSE LET all == all_domains(c)
             c1 == DeriveDkim(c, all)
             c2 == DeriveTls(c1, all)
             c3 == DeriveSrs(c2) IN
         IF TlsEmailMissing(c3) THEN [config |-> c3, error |-> ErrTlsEmail]
         ELSE IF RelayPasswordMissing(c3) THEN [config |-> c3, error |-> ErrRelay]
         ELSE [config |-> c3, error |-> NoError]

-----------------------------------------------------------------------------
(* The Configuration objects of the model                                  *)

S_mab == <<"m", ".", "a", ".", "b">>        \* "m.a.b"
S_fc == <<"f", ".", "c">>                   \* "f.c"
S_sd == <<"s", ".", "d">>                   \* "s.d"

\* SMTP_HOSTNAME: empty, without a dot, ending in a dot, with two dots
Hostnames == {<<>>, <<"m">>, <<"m", ".">>, S_mab}

RuleCandidates ==
    { [source |-> <<"u", "@", "a", ".", "b">>,
       destination |-> <<"v", "@", "c", ".", "d">>, is_wildcard |-> FALSE],
      [source |-> <<"*", "@", "c", ".", "d">>,
       destination |-> <<"v", "@", "c", ".", "d">>, is_wildcard |-> TRUE],
      [source |-> <<"*">>,
       destination |-> <<"v", "@", "c", ".", "d">>, is_wildcard |-> TRUE] }

\* a ForwardingRule exists only if __post_init__ accepted it
Rules == {r \in RuleCandidates : PostInitOK(r)}

DomainSets == {{}, {S_fc}}                  \* DKIM_DOMAINS / TLS_DOMAINS
OptStr(v) == {None, <<>>, v}                \* env_vars.get(...): absent, "", set

\* Configuration objects over the given hostnames and rule lists
ConfigSpace(hosts, rulelists, fail2ban) ==
    { [smtp |-> [hostname |-> h, relay_host |-> rh,
                 relay_username |-> ru, relay_password |-> rp],
       dkim |-> [enabled |-> de, domains |-> dd],
       tls |-> [enabled |-> te, email |-> tm, domains |-> td],
       srs |-> [enabled |-> se, domain |-> sd],
       security |-> [fail2ban_enabled |-> fb],
       forwarding_rules |-> rl] :
        h \in hosts, rl \in rulelists,
        rh \in {None, <<"r">>}, ru \in OptStr(<<"u">>), rp \in OptStr(<<"p">>),
        de \in BOOLEAN, dd \in DomainSets,
        te \in BOOLEAN, tm \in {<<>>, <<"e">>}, td \in DomainSets,
        se \in BOOLEAN, sd \in OptStr(S_sd),
        fb \in fail2ban }

\* Configuration() as the dataclass defaults build it (config.py 123-131)
DefaultConfig ==
    [smtp |-> [hostname |-> S_mab, relay_host |-> None,
               relay_username |-> None, relay_password |-> None],
     dkim |-> [enabled |-> TRUE, domains |-> {}],
     tls |-> [enabled |-> TRUE, email |-> <<>>, domains |-> {}],
     srs |-> [enabled |-> TRUE, domain |-> None],
     security |-> [fail2ban_enabled |-> TRUE],
     forwarding_rules |-> <<>>]

-----------------------------------------------------------------------------
(* SpecValidate: validate() called on a Configuration object               *)

NoRc == -1

\* values of the variables a specification does not use
NoEnv == <<>>
NoRule == [source |-> <<>>, destination |-> <<>>, is_wildcard |-> FALSE]
NotBuilt == "none"

InitValidate ==
    /\ config \in ConfigSpace(Hostnames, SeqsUpTo(Rules, MaxRules), {TRUE})
    /\ pre = config
    /\ err = NotCalled
    /\ calls = 0
    /\ okcalls = 0
    /\ pc = "method"
    /\ cmd = "none"
    /\ steps = <<>>
    /\ tools = {}
    /\ rc = NoRc
    /\ env = NoEnv
    /\ rule = NoRule
    /\ built = NotBuilt
    /\ sys_stdout = "stdout"
    /\ written = {}
    /\ fs = <<>>
    /\ service_callbacks = {}
    /\ service_check_funcs = {}
    /\ checks = <<>>
    /\ ops = <<>>
    /\ now = 0
    /\ start_time = 0
    /\ sock = FALSE
    /\ seen = FALSE

\* config.validate(), the caller catching the ValueError
Validate ==
    /\ pc = "method"
    /\ calls < MaxCalls
    /\ LET r == validate(config) IN
        /\ pre' = config
        /\ config' = r.config
        /\ err' = r.error
        /\ okcalls' = IF r.error = NoError THEN okcalls + 1 ELSE okcalls
    /\ calls' = calls + 1
    /\ UNCHANGED <<pc, cmd, steps, tools, rc,
                 envvars, sysvars, waitvars, outvars>>

NextValidate == Validate

SpecValidate == InitValidate /\ [][NextValidate]_vars

-----------------------------------------------------------------------------
(* Spec: one process running main() of entrypoint.py                       *)

\* the Configurations from_environment builds here before it calls validate()
EnvConfigs ==
    { c \in ConfigSpace({<<>>, S_mab}, SeqsUpTo(Rules, 1), BOOLEAN) :
        /\ c.dkim.domains = {} /\ c.tls.domains = {}
        /\ c.srs.domain # <<>>
        /\ c.smtp.relay_username # <<>> /\ c.smtp.relay_password # <<>>
        /\ (c.smtp.relay_host = None) = (c.smtp.relay_username = None)
        /\ c.smtp.relay_host = None => c.smtp.relay_password = None }

Init ==
    /\ pc = "main"
    /\ cmd = "none"
    /\ config = DefaultConfig
    /\ pre = DefaultConfig
    /\ err = NotCalled
    /\ calls = 0
    /\ okcalls = 0
    /\ steps = <<>>
    /\ tools = {}
    /\ rc = NoRc
    /\ env = NoEnv
    /\ rule = NoRule
    /\ built = NotBuilt
    /\ sys_stdout = "stdout"
    /\ written = {}
    /\ fs = <<>>
    /\ service_callbacks = {}
    /\ service_check_funcs = {}
    /\ checks = <<>>
    /\ ops = <<>>
    /\ now = 0
    /\ start_time = 0
    /\ sock = FALSE
    /\ seen = FALSE

\* main(): argparse picks the command (entrypoint.py 405-423)
Main ==
    /\ pc = "main"
    /\ \E command \in {"run", "config", "initialize"} : cmd' = command
    /\ pc' = "from_environment"
    /\ UNCHANGED <<config, pre, err, calls, okcalls, steps, tools, rc>>
    /\ UNCHANGED <<envvars, sysvars, waitvars, outvars>>

\* faulty variant of FromEnvironment: the configuration error is logged,
\* not raised
FromEnvironment_swallowed ==
    /\ pc = "from_environment"
    /\ \E c \in EnvConfigs :
        LET r == validate(c) IN
        /\ pre' = c
        /\ config' = r.config
        /\ err' = r.error
        /\ okcalls' = IF r.error = NoError THEN okcalls + 1 ELSE okcalls
        /\ pc' = IF cmd = "config" THEN "show_config_table" ELSE "setup_supervisor"
    /\ calls' = calls + 1
    /\ UNCHANGED <<cmd, steps, tools, rc, envvars, sysvars, waitvars, outvars>>

\* config = from_environment() in run() and show_config(): the Configuration
\* is built from the environment and validated; a ValueError propagates to
\* the caller's except clause, which returns 1
FromEnvironment ==
    /\ pc = "from_environment"
    /\ \E c \in EnvConfigs :
        LET r == validate(c) IN
        /\ pre' = c
        /\ config' = r.config
        /\ err' = r.error
        /\ okcalls' = IF r.error = NoError THEN okcalls + 1 ELSE okcalls
        /\ IF r.error # NoError
           THEN pc' = "exit" /\ rc' = 1
           ELSE /\ pc' = IF cmd = "config" THEN "show_config_table"
                         ELSE "setup_supervisor"
                /\ rc' = rc
    /\ calls' = calls + 1
    /\ UNCHANGED <<cmd, steps, tools, envvars, sysvars, waitvars, outvars>>

\* print(text): the text goes to the stream sys.stdout names; out is what
\* the process's standard output has received
write_to(stream, out, text) ==
    IF stream = "stdout" THEN out \cup {text} ELSE out

\* one collaborator call made from initialize()/run(): it is entered, runs
\* some of the external tools it can run, and either returns (the caller goes
\* on to `next`) or raises (initialize() returns False / run() catches, and
\* the process returns 1)
Invoke(name, next, T, mayraise) ==
    /\ pc = name
    /\ steps' = Append(steps, name)
    /\ \E used \in SUBSET T : tools' = tools \cup used
    /\ \/ pc' = next /\ rc' = rc
       \/ mayraise /\ pc' = "exit" /\ rc' = 1
    /\ UNCHANGED <<cmd, pre, err, calls, okcalls,
                 envvars, sysvars, waitvars, outvars>>

\* setup_supervisor(config): renders the supervisor configuration
SetupSupervisor ==
    /\ Invoke("setup_supervisor", "configure_opendkim", {}, TRUE)
    /\ UNCHANGED config

\* configure_opendkim(config): returns at once when DKIM is disabled
ConfigureOpendkim ==
    /\ Invoke("configure_opendkim", "configure_tls",
              IF config.dkim.enabled THEN {"opendkim-genkey"} ELSE {},
              config.dkim.enabled)
    /\ UNCHANGED config

\* configure_tls(config): returns at once when TLS is disabled; certbot is
\* not among the tools, setup_certbot_for_domain raising before it runs it
ConfigureTls ==
    /\ Invoke("configure_tls", "configure_postfix",
              IF config.tls.enabled THEN {"openssl", "postfix"} ELSE {},
              config.tls.enabled)
    /\ UNCHANGED config

\* faulty variant of configure_srs: srs.domain is written whether or not
\* it was set
configure_srs_overwrite(c) ==
    IF ~c.srs.enabled THEN c
    ELSE [c EXCEPT !.srs.domain = c.smtp.hostname]

\* configure_srs(config): the defensive default of srs.domain (lines 186-188)
configure_srs(c) ==
    IF ~c.srs.enabled THEN c
    ELSE IF ~Truthy(c.srs.domain)
         THEN [c EXCEPT !.srs.domain = c.smtp.hostname]
         ELSE c

\* faulty variant of ConfigurePostfix: configure_fail2ban is the next step
\* whether or not fail2ban is enabled
ConfigurePostfix_always ==
    /\ Invoke("configure_postfix", "configure_fail2ban",
              {"postmap", "postfix"}, TRUE)
    /\ config' \in IF pc' = "exit" THEN {config, configure_srs(config)}
                   ELSE {configure_srs(config)}

\* configure_postfix(config), which calls configure_srs first; the next
\* statement of initialize() tests security.fail2ban_enabled
ConfigurePostfix ==
    /\ Invoke("configure_postfix",
              IF config.security.fail2ban_enabled
              THEN "configure_fail2ban" ELSE "print_dns",
              {"postmap", "postfix"}, TRUE)
    /\ config' \in IF pc' = "exit" THEN {config, configure_srs(config)}
                   ELSE {configure_srs(config)}

\* configure_fail2ban(config), called only when fail2ban is enabled
ConfigureFail2ban ==
    /\ Invoke("configure_fail2ban", "print_dns", {"fail2ban-client"}, TRUE)
    /\ UNCHANGED config

\* print_dkim_dns(config); print_tls_info(config)
PrintDns ==
    /\ Invoke("print_dns", "supervisord",
              IF config.tls.enabled THEN {"openssl"} ELSE {},
              config.dkim.enabled)
    /\ UNCHANGED config

\* subprocess.run(["supervisord", ...], check=True)
StartSupervisord ==
    /\ pc = "supervisord"
    /\ steps' = Append(steps, "supervisord")
    /\ tools' = tools \cup {"supervisord"}
    /\ \/ pc' = "wait_for_supervisor" /\ rc' = rc
       \/ pc' = "exit" /\ rc' = 1
    /\ UNCHANGED <<cmd, config, pre, err, calls, okcalls,
                 envvars, sysvars, waitvars, outvars>>

\* wait_for_supervisor(): True when the socket appeared, False on timeout;
\* on False initialize() raises, returns False, and run() returns 1; on
\* True initialize() returns True and run() prints "Initialization complete"
WaitForSupervisor ==
    /\ pc = "wait_for_supervisor"
    /\ steps' = Append(steps, "wait_for_supervisor")
    /\ \E ready \in BOOLEAN :
        IF ready
        THEN /\ pc' = "show_config_table" /\ rc' = rc
             /\ written' = write_to(sys_stdout, written, "Initialization complete")
        ELSE /\ pc' = "exit" /\ rc' = 1
             /\ written' = written
    /\ UNCHANGED <<cmd, config, pre, err, calls, okcalls, tools,
                 envvars, sysvars, waitvars>>
    /\ UNCHANGED sys_stdout

\* show_config_table(config), from run() and from show_config(): sys.stdout
\* is pointed at a StringIO buffer, the table is printed, sys.stdout is set
\* back to old_stdout and the buffer's text is returned; both callers drop
\* the returned text
ShowConfigTable ==
    /\ pc = "show_config_table"
    /\ steps' = Append(steps, "show_config_table")
    /\ LET old_stdout == sys_stdout IN
        /\ written' = write_to("buffer", written, "configuration table")
        /\ sys_stdout' = old_stdout
    /\ IF cmd = "config"
       THEN pc' = "exit" /\ rc' = 0
       ELSE pc' = "check_dns_records" /\ rc' = rc
    /\ UNCHANGED <<cmd, config, pre, err, calls, okcalls, tools,
                 envvars, sysvars, waitvars>>

\* check_dns_records(config); show_dns_table(dns_results), which prints
\* only when there are results; the closing prints; return 0. An exception
\* on the way makes run() return 1
CheckDnsRecords ==
    /\ pc = "check_dns_records"
    /\ steps' = Append(steps, "check_dns_records")
    /\ pc' = "exit"
    /\ \/ /\ rc' = 0
          /\ \E dns_results \in BOOLEAN :
              written' = write_to(sys_stdout,
                             IF dns_results
                             THEN write_to(sys_stdout, written, "DNS records")
                             ELSE written,
                             "Mail forwarder initialized successfully")
       \/ /\ rc' = 1
          /\ written' = written
    /\ UNCHANGED <<cmd, config, pre, err, calls, okcalls, tools,
                 envvars, sysvars, waitvars>>
    /\ UNCHANGED sys_stdout

Next ==
    \/ Main
    \/ FromEnvironment
    \/ SetupSupervisor
    \/ ConfigureOpendkim
    \/ ConfigureTls
    \/ ConfigurePostfix
    \/ ConfigureFail2ban
    \/ PrintDns
    \/ StartSupervisord
    \/ WaitForSupervisor
    \/ ShowConfigTable
    \/ CheckDnsRecords

Spec == Init /\ [][Next]_vars

-----------------------------------------------------------------------------
(* Properties                                                              *)

\* the text after the '@' of an address with one '@'
AfterAt(s) ==
    LET i == CHOOSE k \in 1..Len(s) : s[k] = "@" IN
    [j \in 1..(Len(s) - i) |-> s[i + j]]

\* the text after the first dot of h, or h itself when it has no dot
ParentDomain(h) ==
    IF \A k \in 1..Len(h) : h[k] # "." THEN h
    ELSE LET i == CHOOSE k \in 1..Len(h) :
                      h[k] = "." /\ \A j \in 1..(k - 1) : h[j] # "."
         IN [j \in 1..(Len(h) - i) |-> h[i + j]]

\* the domains of all forwarding rules of c, and its hostname's parent domain
ExpectedAllDomains(c) ==
    {AfterAt(c.forwarding_rules[i].source) : i \in 1..Len(c.forwarding_rules)}
    \cup {ParentDomain(c.smtp.hostname)}

S_ab == <<"a", ".", "b">>
S_cd == <<"c", ".", "d">>

\* C1: when validation fails in from_environment(), no collaborator step and
\* no external tool is ever invoked and the command returns 1; every
\* collaborator step or tool invocation that occurs comes after exactly one
\* validate() call, which succeeded.
C1_ValidationBeforeSteps ==
    /\ err \notin {NoError, NotCalled} =>
            steps = <<>> /\ tools = {} /\ pc = "exit" /\ rc = 1
    /\ (steps # <<>> \/ tools # {}) =>
            calls = 1 /\ okcalls = 1 /\ err = NoError

C1_Witness ==
    /\ cmd = "run" /\ pc = "exit" /\ rc = 1
    /\ err = ErrTlsEmail /\ calls = 1 /\ steps = <<>>

\* C2: validate() raises a configuration error whenever smtp.hostname is
\* empty, whatever the other fields are, and leaves the object as it was.
C2_EmptyHostnameFails ==
    (calls > 0 /\ pre.smtp.hostname = <<>>) =>
        err = ErrHostname /\ config = pre

C2_Witness ==
    /\ calls > 0 /\ pre.smtp.hostname = <<>> /\ err = ErrHostname
    /\ Len(pre.forwarding_rules) > 0
    /\ pre.tls.email # <<>> /\ pre.smtp.relay_host = None

\* C3 (as stated): with an empty forwarding-rule list validate() fails with
\* "No forwarding rules defined", whatever the other fields are.
C3_Original ==
    (calls > 0 /\ Len(pre.forwarding_rules) = 0) => err = ErrNoRules

\* C3 (amended): with an empty forwarding-rule list validate() always fails
\* with a configuration error; the error is "No forwarding rules defined"
\* exactly when smtp.hostname is non-empty, and the hostname error (checked
\* first) when it is empty.
C3_NoRulesFails ==
    (calls > 0 /\ Len(pre.forwarding_rules) = 0) =>
        /\ config = pre
        /\ pre.smtp.hostname # <<>> => err = ErrNoRules
        /\ pre.smtp.hostname = <<>> => err = ErrHostname

C3_Witness ==
    /\ calls > 0 /\ Len(pre.forwarding_rules) = 0 /\ err = ErrNoRules
    /\ pre.tls.enabled /\ pre.tls.email = <<>>
    /\ pre.smtp.relay_host # None /\ pre.smtp.relay_username # None
    /\ pre.smtp.relay_password = None

\* C4: DKIM enabled and dkim.domains empty before a successful validate():
\* afterwards dkim.domains is exactly the set of the rules' domains together
\* with the parent domain of the hostname.
C4_DkimDomainsDerived ==
    (calls > 0 /\ err = NoError /\ pre.dkim.enabled /\ pre.dkim.domains = {}) =>
        config.dkim.domains = ExpectedAllDomains(pre)

C4_Witness ==
    /\ calls > 0 /\ err = NoError
    /\ pre.dkim.enabled /\ pre.dkim.domains = {}
    /\ pre.smtp.hostname = S_mab /\ Len(pre.forwarding_rules) = 2
    /\ config.dkim.domains = {S_ab, S_cd}

\* C5: a non-empty dkim.domains, and a non-empty tls.domains, is left by
\* validate() exactly as it was supplied.
C5_ExplicitDomainsKept ==
    calls > 0 =>
        /\ pre.dkim.domains # {} => config.dkim.domains = pre.dkim.domains
        /\ pre.tls.domains # {} => config.tls.domains = pre.tls.domains

C5_Witness ==
    /\ calls > 0 /\ err = NoError
    /\ pre.dkim.enabled /\ pre.dkim.domains = {S_fc}
    /\ pre.tls.enabled /\ pre.tls.domains = {S_fc}
    /\ Len(pre.forwarding_rules) = 2 /\ pre.smtp.hostname = S_mab
    /\ config.dkim.domains = {S_fc} /\ config.tls.domains = {S_fc}

\* C6: TLS enabled and tls.domains empty before a successful validate():
\* afterwards tls.domains is exactly the hostname, the rules' domains and
\* the parent domain of the hostname.
C6_TlsDomainsDerived ==
    (calls > 0 /\ err = NoError /\ pre.tls.enabled /\ pre.tls.domains = {}) =>
        config.tls.domains = {pre.smtp.hostname} \cup ExpectedAllDomains(pre)

C6_Witness ==
    /\ calls > 0 /\ err = NoError
    /\ pre.tls.enabled /\ pre.tls.domains = {}
    /\ pre.smtp.hostname = S_mab
    /\ config.tls.domains = {S_mab, S_ab, S_cd}

\* C7: after a successful validate(), srs.domain is the hostname when SRS is
\* enabled and the domain was unset (None or empty), is unchanged when it was
\* supplied, and is non-empty whenever SRS is enabled.
C7_SrsDomainDefault ==
    (calls > 0 /\ err = NoError) =>
        /\ (pre.srs.enabled /\ pre.srs.domain \in {None, <<>>}) =>
                config.srs.domain = pre.smtp.hostname
        /\ pre.srs.domain \notin {None, <<>>} =>
                config.srs.domain = pre.srs.domain
        /\ config.srs.enabled =>
                config.srs.domain \notin {None, <<>>}

C7_Witness ==
    /\ calls > 0 /\ err = NoError
    /\ pre.srs.enabled /\ pre.srs.domain = None
    /\ config.srs.domain = S_mab

\* C8 (as stated): with TLS enabled and an empty contact e-mail validate()
\* fails and dkim.domains, tls.domains and srs.domain are as before the call.
C8_Original ==
    (calls > 0 /\ pre.tls.enabled /\ pre.tls.email = <<>>) =>
        /\ err # NoError
        /\ config.dkim.domains = pre.dkim.domains
        /\ config.tls.domains = pre.tls.domains
        /\ config.srs.domain = pre.srs.domain

\* C8 (amended): with TLS enabled and an empty contact e-mail validate()
\* always fails with a configuration error.  When it is the e-mail error,
\* the defaults have already been applied: each of dkim.domains, tls.domains
\* and srs.domain that was empty with its feature enabled holds its derived
\* value, the others their value from before the call.  Only when the
\* failure is the hostname or the no-rules error is nothing derived.
C8_TlsEmailFailsAfterDefaults ==
    (calls > 0 /\ pre.tls.enabled /\ pre.tls.email = <<>>) =>
        /\ err \in {ErrHostname, ErrNoRules, ErrTlsEmail}
        /\ err \in {ErrHostname, ErrNoRules} => config = pre
        /\ err = ErrTlsEmail =>
            /\ config.dkim.domains =
                 IF pre.dkim.enabled /\ pre.dkim.domains = {}
                 THEN ExpectedAllDomains(pre) ELSE pre.dkim.domains
            /\ config.tls.domains =
                 IF pre.tls.domains = {}
                 THEN {pre.smtp.hostname} \cup ExpectedAllDomains(pre)
                 ELSE pre.tls.domains
            /\ config.srs.domain =
                 IF pre.srs.enabled /\ pre.srs.domain \in {None, <<>>}
                 THEN pre.smtp.hostname ELSE pre.srs.domain

C8_Witness ==
    /\ calls > 0 /\ err = ErrTlsEmail
    /\ pre.tls.enabled /\ pre.tls.email = <<>>
    /\ pre.tls.domains = {} /\ config.tls.domains = {S_mab, S_ab, S_cd}
    /\ pre.dkim.domains = {} /\ config.dkim.domains = {S_ab, S_cd}
    /\ pre.srs.domain = None /\ config.srs.domain = S_mab

\* C9: validate() fails when a relay host is configured and a relay username
\* is given without a password; the relay error is raised in no other case
\* (host unset, or username and password both present or both absent), and
\* it is raised in exactly that case when no earlier check has failed.
RelayCase(c) ==
    /\ c.smtp.relay_host \notin {None, <<>>}
    /\ c.smtp.relay_username \notin {None, <<>>}
    /\ c.smtp.relay_password \in {None, <<>>}

C9_RelayPasswordRequired ==
    calls > 0 =>
        /\ RelayCase(pre) => err # NoError
        /\ err = ErrRelay => RelayCase(pre)
        /\ (/\ pre.smtp.hostname # <<>>
            /\ Len(pre.forwarding_rules) > 0
            /\ ~(pre.tls.enabled /\ pre.tls.email = <<>>)) =>
                (err = ErrRelay <=> RelayCase(pre))

C9_Witness ==
    /\ calls > 0 /\ err = ErrRelay
    /\ pre.smtp.relay_host = <<"r">> /\ pre.smtp.relay_username = <<"u">>
    /\ pre.smtp.relay_password = <<>>

\* C10: once a validate() call has succeeded, a further validate() call on
\* the same Configuration leaves dkim.domains, tls.domains and srs.domain
\* unchanged.
C10_ValidateIdempotent ==
    [][(calls > 0 /\ err = NoError) =>
        /\ config'.dkim.domains = config.dkim.domains
        /\ config'.tls.domains = config.tls.domains
        /\ config'.srs.domain = config.srs.domain]_vars

C10_Witness ==
    /\ calls = 2 /\ okcalls = 2 /\ err = NoError
    /\ config.dkim.domains = {S_ab, S_cd}
    /\ config.tls.domains = {S_mab, S_ab, S_cd}
    /\ config.srs.enabled /\ config.srs.domain = S_mab

-----------------------------------------------------------------------------
(* Python str methods used by the environment parsing                      *)

\* s.lstrip()
RECURSIVE lstrip(_)
lstrip(s) ==
    IF Len(s) > 0 /\ s[1] \in WhiteSpace THEN lstrip(Tail(s)) ELSE s

\* s.rstrip()
RECURSIVE rstrip(_)
rstrip(s) ==
    IF Len(s) > 0 /\ s[Len(s)] \in WhiteSpace
    THEN rstrip(SubSeq(s, 1, Len(s) - 1)) ELSE s

\* s.strip()
strip(s) == rstrip(lstrip(s))

\* s.startswith(p)
startswith(s, p) == Len(s) >= Len(p) /\ SubSeq(s, 1, Len(p)) = p

\* string.ascii_uppercase and string.ascii_lowercase

ascii_uppercase ==
    <<"A", "B", "C", "D", "E", "F", "G", "H", "I", "J", "K", "L", "M", "N",
    "O", "P", "Q", "R", "S", "T", "U", "V", "W", "X", "Y", "Z">>

ascii_lowercase ==
    <<"a", "b", "c", "d", "e", "f", "g", "h", "i", "j", "k", "l", "m", "n",
    "o", "p", "q", "r", "s", "t", "u", "v", "w", "x", "y", "z">>

\* s.lower()
lower(s) ==
    [i \in 1..Len(s) |->
        IF \E k \in 1..Len(ascii_uppercase) : ascii_uppercase[k] = s[i]
        THEN ascii_lowercase[CHOOSE k \in 1..Len(ascii_uppercase) :
                                ascii_uppercase[k] = s[i]]
        ELSE s[i]]

\* sep.join(parts)
RECURSIVE join(_, _)
join(parts, sep) ==
    IF Len(parts) = 0 THEN <<>>
    ELSE IF Len(parts) = 1 THEN parts[1]
    ELSE parts[1] \o sep \o join(Tail(parts), sep)

-----------------------------------------------------------------------------
(* from_environment (config.py 183-330)                                    *)

\* names of the environment variables from_environment reads

K_SMTP_HOSTNAME ==
    <<"S", "M", "T", "P", "_", "H", "O", "S", "T", "N", "A", "M", "E">>

K_SMTP_RELAY_HOST ==
    <<"S", "M", "T", "P", "_", "R", "E", "L", "A", "Y", "_", "H", "O", "S",
    "T">>

K_SMTP_RELAY_USERNAME ==
    <<"S", "M", "T", "P", "_", "R", "E", "L", "A", "Y", "_", "U", "S", "E",
    "R", "N", "A", "M", "E">>

K_SMTP_RELAY_PASSWORD ==
    <<"S", "M", "T", "P", "_", "R", "E", "L", "A", "Y", "_", "P", "A", "S",
    "S", "W", "O", "R", "D">>

K_SMTP_USERS ==
    <<"S", "M", "T", "P", "_", "U", "S", "E", "R", "S">>

K_FORWARD_RULES ==
    <<"F", "O", "R", "W", "A", "R", "D", "_", "R", "U", "L", "E", "S">>

K_DKIM_ENABLED ==
    <<"D", "K", "I", "M", "_", "E", "N", "A", "B", "L", "E", "D">>

K_DKIM_DOMAINS ==
    <<"D", "K", "I", "M", "_", "D", "O", "M", "A", "I", "N", "S">>

K_TLS_ENABLED ==
    <<"T", "L", "S", "_", "E", "N", "A", "B", "L", "E", "D">>

K_ACME_EMAIL ==
    <<"A", "C", "M", "E", "_", "E", "M", "A", "I", "L">>

K_TLS_DOMAINS ==
    <<"T", "L", "S", "_", "D", "O", "M", "A", "I", "N", "S">>

K_SRS_ENABLED ==
    <<"S", "R", "S", "_", "E", "N", "A", "B", "L", "E", "D">>

K_SRS_SECRET ==
    <<"S", "R", "S", "_", "S", "E", "C", "R", "E", "T">>

K_SRS_DOMAIN ==
    <<"S", "R", "S", "_", "D", "O", "M", "A", "I", "N">>

K_SRS_EXCLUDE_DOMAINS ==
    <<"S", "R", "S", "_", "E", "X", "C", "L", "U", "D", "E", "_", "D", "O",
    "M", "A", "I", "N", "S">>

K_FAIL2BAN_ENABLED ==
    <<"F", "A", "I", "L", "2", "B", "A", "N", "_", "E", "N", "A", "B", "L",
    "E", "D">>

\* the prefix of the forwarding variables
S_FORWARD_ == <<"F", "O", "R", "W", "A", "R", "D", "_">>

\* literals of config.py
S_true == <<"t", "r", "u", "e">>
S_yes == <<"y", "e", "s">>
S_on == <<"o", "n">>
S_mail_example_com ==
    <<"m", "a", "i", "l", ".", "e", "x", "a",
    "m", "p", "l", "e", ".", "c", "o", "m">>

\* env_vars.get(k, default)
env_get(e, k, default) == IF k \in DOMAIN e THEN e[k] ELSE default

\* parse_bool(value): str(value).lower() in ('true', 'yes', '1', 'on')
parse_bool(value) == lower(value) \in {S_true, S_yes, <<"1">>, S_on}

-----------------------------------------------------------------------------
(* parse_forwarding_rules (config.py 183-213)                              *)

\* rule_parts = [r.strip() for r in rule_str.split(';') if r.strip()]
rule_parts(rule_str) ==
    LET pieces == split(rule_str, ";") IN
    SelectSeq([i \in 1..Len(pieces) |-> strip(pieces[i])],
              LAMBDA r : Truthy(r))

\* faulty variant of is_wildcard: only the '*@' prefix is recognised
is_wildcard_at_only(source) == startswith(source, <<"*", "@">>)

\* is_wildcard = source.startswith('*@') or source.startswith('*.')
is_wildcard(source) ==
    startswith(source, <<"*", "@">>) \/ startswith(source, <<"*", ".">>)

\* the ForwardingRule(...) call of one entry that has a colon
entry_rule(part) ==
    LET sd == split1(part, ":")
        source == strip(sd[1])
        destination == strip(sd[2]) IN
    [source |-> source, destination |-> destination,
     is_wildcard |-> is_wildcard(source)]

\* faulty variant of parse_rule_parts: the first entry that is skipped ends
\* the loop (break for continue)
RECURSIVE parse_rule_parts_break(_)
parse_rule_parts_break(parts) ==
    IF Len(parts) = 0 THEN <<>>
    ELSE IF ~Contains(Head(parts), ":") THEN <<>>
    ELSE IF PostInitOK(entry_rule(Head(parts)))
         THEN <<entry_rule(Head(parts))>> \o parse_rule_parts_break(Tail(parts))
         ELSE <<>>

\* for part in rule_parts: entries without ':' are skipped (continue); a
\* ValueError of the constructor is caught and the entry is skipped
RECURSIVE parse_rule_parts(_)
parse_rule_parts(parts) ==
    IF Len(parts) = 0 THEN <<>>
    ELSE IF ~Contains(Head(parts), ":") THEN parse_rule_parts(Tail(parts))
    ELSE IF PostInitOK(entry_rule(Head(parts)))
         THEN <<entry_rule(Head(parts))>> \o parse_rule_parts(Tail(parts))
         ELSE parse_rule_parts(Tail(parts))

\* s.replace('__', '@')
RECURSIVE replace_dunder(_)
replace_dunder(s) ==
    IF Len(s) < 2 THEN s
    ELSE IF s[1] = "_" /\ s[2] = "_"
         THEN <<"@">> \o replace_dunder(SubSeq(s, 3, Len(s)))
         ELSE <<s[1]>> \o replace_dunder(Tail(s))

\* the rules of the variables named FORWARD_<source>, one per destination
RECURSIVE per_variable_rules(_, _)
per_variable_rules(e, names) ==
    IF names = {} THEN <<>>
    ELSE LET k == CHOOSE n \in names : TRUE
             source == replace_dunder(SubSeq(k, Len(S_FORWARD_) + 1, Len(k)))
             dests == split(e[k], ",")
             made == [j \in 1..Len(dests) |->
                        [source |-> source, destination |-> strip(dests[j]),
                         is_wildcard |-> is_wildcard(source)]] IN
         SelectSeq(made, LAMBDA r : PostInitOK(r))
             \o per_variable_rules(e, names \ {k})

\* faulty variant of parse_forwarding_rules: the per-variable form is read
\* as well as FORWARD_RULES
parse_forwarding_rules_both(e) ==
    (IF K_FORWARD_RULES \in DOMAIN e
     THEN parse_rule_parts(rule_parts(e[K_FORWARD_RULES]))
     ELSE <<>>)
    \o per_variable_rules(e, {k \in DOMAIN e :
                                /\ startswith(k, S_FORWARD_)
                                /\ k # K_FORWARD_RULES})

\* parse_forwarding_rules(env_vars)
parse_forwarding_rules(e) ==
    IF K_FORWARD_RULES \in DOMAIN e
    THEN parse_rule_parts(rule_parts(e[K_FORWARD_RULES]))
    ELSE <<>>

-----------------------------------------------------------------------------
(* the other fields from_environment fills in (config.py 226-330)          *)

\* d[k] = v of a dict, a function from keys to values
dict_set(d, k, v) == [x \in (DOMAIN d) \cup {k} |-> IF x = k THEN v ELSE d[x]]

\* lines 248-254: the loop over SMTP_USERS.split(";"); username and
\* password are tested as split, and stripped afterwards
RECURSIVE parse_user_pairs(_, _)
parse_user_pairs(user_pairs, smtp_users) ==
    IF Len(user_pairs) = 0 THEN smtp_users
    ELSE LET pair == Head(user_pairs)
             up == split1(pair, ":") IN
         parse_user_pairs(Tail(user_pairs),
             IF Contains(pair, ":") /\ Truthy(up[1]) /\ Truthy(up[2])
             THEN dict_set(smtp_users, strip(up[1]), strip(up[2]))
             ELSE smtp_users)

\* lines 245-254: config.smtp.smtp_users, filled into the empty dict
parse_smtp_users(e) ==
    LET smtp_users_str == env_get(e, K_SMTP_USERS, <<>>) IN
    IF Truthy(smtp_users_str)
    THEN parse_user_pairs(split(smtp_users_str, ";"), <<>>)
    ELSE <<>>

\* SMTPConfig.__post_init__ (lines 105-112), run once when the object is
\* constructed: smtp_auth_enabled of the new object
SMTPConfig_post_init(smtp_auth_enabled, smtp_users) ==
    IF DOMAIN smtp_users # {} THEN TRUE ELSE smtp_auth_enabled

\* lines 271-274, 283-286, 303-306:
\* {domain.strip() for domain in env_vars.get(key, '').split(',')}
parse_domain_set(e, key) ==
    IF Truthy(env_get(e, key, None))
    THEN LET parts == split(e[key], ",") IN
         {strip(parts[i]) : i \in 1..Len(parts)}
    ELSE {}

\* range(32) of SRSConfig.__post_init__
SecretLen == 32

\* string.ascii_letters + string.digits
alphabet ==
    {ascii_lowercase[i] : i \in 1..Len(ascii_lowercase)}
    \cup {ascii_uppercase[i] : i \in 1..Len(ascii_uppercase)}
    \cup {"0", "1", "2", "3", "4", "5", "6", "7", "8", "9"}

\* ''.join(secrets.choice(alphabet) for _ in range(32)): the outcomes of the
\* random source followed here, one letter repeated or two alternating
GeneratedSecrets ==
    {[i \in 1..SecretLen |-> IF i % 2 = 1 THEN p[1] ELSE p[2]] :
        p \in {<<"a", "a">>, <<"Z", "Z">>, <<"0", "9">>, <<"q", "7">>}
                \cap (alphabet \X alphabet)}

\* faulty variant of SRSConfig: the secret is generated whenever it is
\* empty, enabled or not
SRSConfig_unguarded(enabled, secret, domain, exclude_domains, generated) ==
    [enabled |-> enabled,
     secret |-> IF ~Truthy(secret) THEN generated ELSE secret,
     domain |-> domain,
     exclude_domains |-> exclude_domains]

\* SRSConfig(enabled=, secret=, domain=, exclude_domains=) with its
\* __post_init__ (lines 52-59); generated is what the random source yields
SRSConfig(enabled, secret, domain, exclude_domains, generated) ==
    [enabled |-> enabled,
     secret |-> IF enabled /\ ~Truthy(secret) THEN generated ELSE secret,
     domain |-> domain,
     exclude_domains |-> exclude_domains]

\* from_environment(): the Configuration filled in from the environment
\* (pre), then validate(); error # NoError when validate() raised and no
\* Configuration is returned
from_environment(e, generated) ==
    LET c == [smtp |-> [hostname |->
                            env_get(e, K_SMTP_HOSTNAME, S_mail_example_com),
                        relay_host |-> env_get(e, K_SMTP_RELAY_HOST, None),
                        relay_username |->
                            env_get(e, K_SMTP_RELAY_USERNAME, None),
                        relay_password |->
                            env_get(e, K_SMTP_RELAY_PASSWORD, None),
                        smtp_auth_enabled |->
                            SMTPConfig_post_init(FALSE, <<>>),
                        smtp_users |-> parse_smtp_users(e)],
              forwarding_rules |-> parse_forwarding_rules(e),
              dkim |-> [enabled |->
                            parse_bool(env_get(e, K_DKIM_ENABLED, S_true)),
                        domains |-> parse_domain_set(e, K_DKIM_DOMAINS)],
              tls |-> [enabled |->
                           parse_bool(env_get(e, K_TLS_ENABLED, S_true)),
                       email |-> env_get(e, K_ACME_EMAIL, <<>>),
                       domains |-> parse_domain_set(e, K_TLS_DOMAINS)],
              srs |-> SRSConfig(
                          parse_bool(env_get(e, K_SRS_ENABLED, S_true)),
                          env_get(e, K_SRS_SECRET, <<>>),
                          env_get(e, K_SRS_DOMAIN, None),
                          parse_domain_set(e, K_SRS_EXCLUDE_DOMAINS),
                          generated),
              security |-> [fail2ban_enabled |->
                            parse_bool(env_get(e, K_FAIL2BAN_ENABLED, S_true))]]
        r == validate(c) IN
    [pre |-> c, config |-> r.config, error |-> r.error]

-----------------------------------------------------------------------------
(* SpecEnv: from_environment() called on an environment                    *)

MaxParts == 2        \* most elements of one list-valued environment variable

\* the values sep.join builds from at most n elements of a pool
ListsUpTo(elems, n, sep) == {join(parts, sep) : parts \in SeqsUpTo(elems, n)}

\* entries of FORWARD_RULES: rules, a rule with two colons, an entry without
\* a colon, a source without a dot, blank and empty entries
RuleEntries ==
    { <<"u", "@", "a", ".", "b", ":", "v", "@", "c", ".", "d">>,    \* "u@a.b:v@c.d"
      <<" ", "*", ".", "s", "@", "a", ".", "b", " ", ":", " ", "v", "@", "c", ".", "d", " ">>,    \* " *.s@a.b : v@c.d "
      <<"*", "@", "c", ".", "d", ":", "v", "@", "c", ".", "d", ":", "z">>,    \* "*@c.d:v@c.d:z"
      <<"x">>,    \* "x"
      <<"u", "@", "a", ":", "v", "@", "c", ".", "d">>,    \* "u@a:v@c.d"
      <<" ">>,    \* " "
      <<>> }    \* ""

\* elements of DKIM_DOMAINS, TLS_DOMAINS and SRS_EXCLUDE_DOMAINS
DomainElems ==
    { <<"f", ".", "c">>,    \* "f.c"
      <<" ", "s", ".", "d", " ">>,    \* " s.d "
      <<>>,    \* ""
      <<" ">> }    \* " "

\* pairs of SMTP_USERS
UserPairs ==
    { <<"u", ":", "p">>,    \* "u:p"
      <<" ", "w", " ", ":", " ", "p", " ">>,    \* " w : p "
      <<" ", ":", "p">>,    \* " :p"
      <<"u", ":", " ">>,    \* "u: "
      <<":", "p">>,    \* ":p"
      <<"u", ":">>,    \* "u:"
      <<"u">>,    \* "u"
      <<"p", ":", "q", ":", "r">> }    \* "p:q:r"

\* a variable of the per-variable forwarding form, FORWARD_u__a.b
K_FORWARD_u__a_b ==
    <<"F", "O", "R", "W", "A", "R", "D", "_", "u", "_", "_", "a", ".", "b">>

S_e == <<"e">>
S_rule == <<"u", "@", "a", ".", "b", ":", "v", "@", "c", ".", "d">>     \* "u@a.b:v@c.d"

\* an environment validate() accepts: ACME_EMAIL and one forwarding rule
BaseEnv == K_ACME_EMAIL :> S_e
ValidEnv == BaseEnv @@ (K_FORWARD_RULES :> S_rule)

\* environments that vary the forwarding variables
RuleEnvs ==
    { BaseEnv @@ pv @@ fr :
        pv \in {<<>>, K_FORWARD_u__a_b :> <<"v", "@", "c", ".", "d", ",", "w", "@", "c", ".", "d">>},
        fr \in {<<>>} \cup { K_FORWARD_RULES :> s :
                    s \in ListsUpTo(RuleEntries, MaxParts, <<";">>) } }

\* environments that vary one of the domain-set variables
DomainEnvs ==
    { ValidEnv @@ (k :> s) :
        k \in {K_DKIM_DOMAINS, K_TLS_DOMAINS, K_SRS_EXCLUDE_DOMAINS},
        s \in ListsUpTo(DomainElems, MaxParts, <<",">>) }

\* environments that vary SMTP_USERS
UserEnvs ==
    { ValidEnv @@ (K_SMTP_USERS :> s) :
        s \in ListsUpTo(UserPairs, MaxParts, <<";">>) }

\* environments that vary SRS_ENABLED and SRS_SECRET
SrsEnvs ==
    { ValidEnv @@ en @@ se :
        en \in {<<>>} \cup { K_SRS_ENABLED :> v :
                    v \in {S_true, <<"O", "N">>, <<"f", "a", "l", "s", "e">>, <<"0">>, <<>>} },
        se \in {<<>>} \cup { K_SRS_SECRET :> v : v \in {<<>>, <<"k">>} } }

Environments == RuleEnvs \cup DomainEnvs \cup UserEnvs \cup SrsEnvs

InitEnv ==
    /\ env \in Environments
    /\ pc = "environ"
    /\ cmd = "none"
    /\ config = DefaultConfig
    /\ pre = DefaultConfig
    /\ err = NotCalled
    /\ calls = 0
    /\ okcalls = 0
    /\ steps = <<>>
    /\ tools = {}
    /\ rc = NoRc
    /\ rule = NoRule
    /\ built = NotBuilt
    /\ sys_stdout = "stdout"
    /\ written = {}
    /\ fs = <<>>
    /\ service_callbacks = {}
    /\ service_check_funcs = {}
    /\ checks = <<>>
    /\ ops = <<>>
    /\ now = 0
    /\ start_time = 0
    /\ sock = FALSE
    /\ seen = FALSE

\* config = from_environment(): the Configuration is returned, or the
\* ValueError of validate() is raised
CallFromEnvironment ==
    /\ pc = "environ"
    /\ \E generated \in GeneratedSecrets :
        LET r == from_environment(env, generated) IN
        /\ pre' = r.pre
        /\ config' = r.config
        /\ err' = r.error
        /\ okcalls' = IF r.error = NoError THEN okcalls + 1 ELSE okcalls
        /\ pc' = IF r.error = NoError THEN "returned" ELSE "raised"
    /\ calls' = calls + 1
    /\ UNCHANGED <<cmd, steps, tools, rc, envvars, sysvars, waitvars, outvars>>

NextEnv == CallFromEnvironment

SpecEnv == InitEnv /\ [][NextEnv]_vars

-----------------------------------------------------------------------------
(* Properties of the environment parsing                                   *)

\* the k-th smallest member of a set of numbers
Kth(P, k) == CHOOSE p \in P : Cardinality({q \in P : q < p}) = k - 1

\* where the separator occurs in a string
SepPositions(s, sep) == {i \in 1..Len(s) : s[i] = sep}

\* the number of sep-separated entries of a string, and the k-th of them
NumEntries(s, sep) == Cardinality(SepPositions(s, sep)) + 1
Entry(s, sep, k) ==
    LET P == SepPositions(s, sep) IN
    SubSeq(s, IF k = 1 THEN 1 ELSE Kth(P, k - 1) + 1,
              IF k = NumEntries(s, sep) THEN Len(s) ELSE Kth(P, k) - 1)

\* a string without its surrounding whitespace
Trim(s) ==
    LET keep == {i \in 1..Len(s) : s[i] \notin WhiteSpace} IN
    IF keep = {} THEN <<>>
    ELSE SubSeq(s, Kth(keep, 1), Kth(keep, Cardinality(keep)))

\* the text before and after the first occurrence of a separator
BeforeFirst(s, sep) == SubSeq(s, 1, Kth(SepPositions(s, sep), 1) - 1)
AfterFirst(s, sep) == SubSeq(s, Kth(SepPositions(s, sep), 1) + 1, Len(s))

\* the domain.tld grammar read strictly: no '@', no whitespace, and a '.'
\* with text on both sides
StrictDomain(s) ==
    /\ \A i \in 1..Len(s) : s[i] # "@" /\ s[i] \notin WhiteSpace
    /\ \E k \in 2..(Len(s) - 1) : s[k] = "."

\* the email grammar read strictly: localpart@domain.tld, one '@', no
\* whitespace anywhere
StrictEmail(s) ==
    /\ Cardinality(SepPositions(s, "@")) = 1
    /\ BeforeFirst(s, "@") # <<>>
    /\ \A i \in 1..Len(s) : s[i] \notin WhiteSpace
    /\ StrictDomain(AfterFirst(s, "@"))

\* the wildcard grammar read strictly: '*' or '*.sub' before '@domain.tld'
StrictWildcard(s) ==
    /\ Cardinality(SepPositions(s, "@")) = 1
    /\ \A i \in 1..Len(s) : s[i] \notin WhiteSpace
    /\ LET local == BeforeFirst(s, "@") IN
        \/ local = <<"*">>
        \/ Len(local) > 2 /\ SubSeq(local, 1, 2) = <<"*", ".">>
    /\ StrictDomain(AfterFirst(s, "@"))

\* a source that starts with '*@' or '*.'
WildcardPrefix(s) ==
    Len(s) >= 2 /\ s[1] = "*" /\ s[2] \in {"@", "."}

\* the rule a FORWARD_RULES entry with a colon stands for
EntrySource(entry) == Trim(BeforeFirst(entry, ":"))
EntryDestination(entry) == Trim(AfterFirst(entry, ":"))
EntryRule(entry) ==
    [source |-> EntrySource(entry), destination |-> EntryDestination(entry),
     is_wildcard |-> WildcardPrefix(EntrySource(entry))]

\* the entries that yield a rule: non-empty, with a colon, passing the grammar
EntryKept(entry) ==
    /\ Trim(entry) # <<>>
    /\ SepPositions(entry, ":") # {}
    /\ IF WildcardPrefix(EntrySource(entry))
       THEN StrictWildcard(EntrySource(entry))
       ELSE StrictEmail(EntrySource(entry))
    /\ StrictEmail(EntryDestination(entry))

\* the rules a FORWARD_RULES string stands for, in entry order
ExpectedRules(s) ==
    LET kept == {k \in 1..NumEntries(s, ";") : EntryKept(Entry(s, ";", k))} IN
    [j \in 1..Cardinality(kept) |-> EntryRule(Entry(s, ";", Kth(kept, j)))]

\* from_environment() has run parse_forwarding_rules
Parsed == pc \in {"returned", "raised"}

\* C11: for any FORWARD_RULES string parse_forwarding_rules returns, in entry
\* order, exactly one rule for each ';'-separated non-empty entry that has a
\* colon and whose trimmed source (before the first colon) and trimmed
\* destination (after it) pass the grammar; the other entries are dropped
\* and do not affect the rest
C11_RulesOfEntries ==
    (Parsed /\ K_FORWARD_RULES \in DOMAIN env)
        => pre.forwarding_rules = ExpectedRules(env[K_FORWARD_RULES])

\* C11: an entry without a colon was dropped and the entry after it kept
C11_Witness ==
    /\ Parsed
    /\ K_FORWARD_RULES \in DOMAIN env
    /\ NumEntries(env[K_FORWARD_RULES], ";") = 2
    /\ ~EntryKept(Entry(env[K_FORWARD_RULES], ";", 1))
    /\ Trim(Entry(env[K_FORWARD_RULES], ";", 1)) # <<>>
    /\ EntryKept(Entry(env[K_FORWARD_RULES], ";", 2))
    /\ Len(pre.forwarding_rules) = 1

-----------------------------------------------------------------------------
(* SpecRule: ForwardingRule(source, destination, is_wildcard) constructed  *)

\* the strings a caller passes as source or destination
RuleStrings ==
    { <<"u", "@", "a", ".", "b">>,    \* an address
      <<"v", "@", "c", ".", "d", "\n">>,    \* an address followed by a newline
      <<"*", "@", "c", ".", "d">>,    \* a wildcard
      <<"*", ".", "s", "@", "a", ".", "b">>,    \* a sub-domain wildcard
      <<"*">>,    \* a plain star
      <<"u", "@", "a", "b">>,    \* no dot
      <<"u", "a", ".", "b">>,    \* no '@'
      <<"u", " ", "@", "a", ".", "b">>,    \* a space inside
      <<"u", "@", "a", "@", "b", ".", "c">>,    \* two '@'
      <<>> }    \* empty

InitRule ==
    /\ rule \in [source : RuleStrings, destination : RuleStrings,
                 is_wildcard : BOOLEAN]
    /\ built = NotBuilt
    /\ pc = "ForwardingRule"
    /\ cmd = "none"
    /\ config = DefaultConfig
    /\ pre = DefaultConfig
    /\ err = NotCalled
    /\ calls = 0
    /\ okcalls = 0
    /\ steps = <<>>
    /\ tools = {}
    /\ rc = NoRc
    /\ env = NoEnv
    /\ sys_stdout = "stdout"
    /\ written = {}
    /\ fs = <<>>
    /\ service_callbacks = {}
    /\ service_check_funcs = {}
    /\ checks = <<>>
    /\ ops = <<>>
    /\ now = 0
    /\ start_time = 0
    /\ sock = FALSE
    /\ seen = FALSE

\* ForwardingRule(...): the dataclass __init__ stores the fields and
\* __post_init__ raises ValueError or returns; the object exists only when
\* it returned
Construct ==
    /\ pc = "ForwardingRule"
    /\ built' = IF PostInitOK(rule) THEN "ok" ELSE "ValueError"
    /\ pc' = "constructed"
    /\ UNCHANGED <<cmd, config, pre, err, calls, okcalls, steps, tools, rc>>
    /\ UNCHANGED <<env, rule, outvars, sysvars, waitvars>>

NextRule == Construct

SpecRule == InitRule /\ [][NextRule]_vars

\* a string with no '@' or no '.'
LacksAtOrDot(s) == SepPositions(s, "@") = {} \/ SepPositions(s, ".") = {}

\* C12: every ForwardingRule that exists has a destination matching the
\* strict single-recipient email grammar (one '@', a '.' in the domain, no
\* whitespace) and a source matching the wildcard grammar when is_wildcard
\* and the strict email grammar otherwise; construction fails for a source
\* or destination lacking an '@' or a '.', and for a wildcard source that
\* is a plain '*'
C12_GrammarInvariant ==
    /\ built = "ok" =>
        /\ StrictEmail(rule.destination)
        /\ IF rule.is_wildcard THEN StrictWildcard(rule.source)
           ELSE StrictEmail(rule.source)
    /\ (/\ built # NotBuilt
        /\ \/ LacksAtOrDot(rule.source)
           \/ LacksAtOrDot(rule.destination)
           \/ rule.is_wildcard /\ rule.source = <<"*">>)
        => built = "ValueError"

\* C13: every rule parse_forwarding_rules returns is tagged wildcard exactly
\* when its source starts with '*@' or '*.'
C13_WildcardTag ==
    Parsed => \A i \in 1..Len(pre.forwarding_rules) :
        pre.forwarding_rules[i].is_wildcard
            <=> WildcardPrefix(pre.forwarding_rules[i].source)

\* C13: a '*.sub' wildcard rule and a plain rule were parsed from one string
C13_Witness ==
    /\ Parsed
    /\ Len(pre.forwarding_rules) = 2
    /\ \E i, j \in 1..2 :
        /\ pre.forwarding_rules[i].is_wildcard
        /\ SubSeq(pre.forwarding_rules[i].source, 1, 2) = <<"*", ".">>
        /\ ~pre.forwarding_rules[j].is_wildcard

\* a name with each '__' replaced by '@', read left to right
RECURSIVE DunderToAt(_)
DunderToAt(s) ==
    IF Len(s) < 2 THEN s
    ELSE IF SubSeq(s, 1, 2) = <<"_", "_">>
         THEN <<"@">> \o DunderToAt(SubSeq(s, 3, Len(s)))
         ELSE <<Head(s)>> \o DunderToAt(Tail(s))

\* the variables of the per-variable form present in the environment
PerVariableNames ==
    {k \in DOMAIN env : /\ Len(k) > Len(S_FORWARD_)
                        /\ SubSeq(k, 1, Len(S_FORWARD_)) = S_FORWARD_
                        /\ k # K_FORWARD_RULES}

\* C14 as stated: every environment variable whose name starts with FORWARD_
\* contributes one rule per comma-separated destination of its value, with
\* the rest of the name, each '__' replaced by '@', as the source
C14_Original ==
    Parsed => \A k \in PerVariableNames :
        \A j \in 1..NumEntries(env[k], ",") :
            \E i \in 1..Len(pre.forwarding_rules) :
                /\ pre.forwarding_rules[i].source
                       = DunderToAt(SubSeq(k, Len(S_FORWARD_) + 1, Len(k)))
                /\ pre.forwarding_rules[i].destination
                       = Trim(Entry(env[k], ",", j))

\* C14, amended: only FORWARD_RULES is read; a variable FORWARD_<source>
\* contributes no rule: every returned rule is the rule of an entry of
\* FORWARD_RULES, and without FORWARD_RULES no rule is returned
C14_OnlyForwardRules ==
    Parsed =>
        IF K_FORWARD_RULES \in DOMAIN env
        THEN \A i \in 1..Len(pre.forwarding_rules) :
                \E k \in 1..NumEntries(env[K_FORWARD_RULES], ";") :
                    /\ SepPositions(Entry(env[K_FORWARD_RULES], ";", k), ":") # {}
                    /\ pre.forwarding_rules[i]
                           = EntryRule(Entry(env[K_FORWARD_RULES], ";", k))
        ELSE pre.forwarding_rules = <<>>

\* C14: FORWARD_u__a.b was set, FORWARD_RULES was not, and no rule came out
C14_Witness ==
    /\ pc = "raised"
    /\ PerVariableNames # {}
    /\ K_FORWARD_RULES \notin DOMAIN env
    /\ pre.forwarding_rules = <<>>
    /\ err = ErrNoRules

\* the trimmed, non-empty elements of a comma-separated value
ElementsOf(s) ==
    {Trim(Entry(s, ",", k)) : k \in 1..NumEntries(s, ",")} \ {<<>>}

\* the domain set from_environment built for a string-set variable
DomainSetOf(key) ==
    IF key = K_DKIM_DOMAINS THEN pre.dkim.domains
    ELSE IF key = K_TLS_DOMAINS THEN pre.tls.domains
    ELSE pre.srs.exclude_domains

\* C15: for DKIM_DOMAINS, TLS_DOMAINS and SRS_EXCLUDE_DOMAINS
\* from_environment yields the set of the comma-separated elements, trimmed
\* and with the empty elements dropped, so that the empty string is never a
\* member; an absent variable yields the empty set
C15_DomainSetsParsed ==
    Parsed => \A key \in {K_DKIM_DOMAINS, K_TLS_DOMAINS, K_SRS_EXCLUDE_DOMAINS} :
        /\ DomainSetOf(key) = IF key \in DOMAIN env THEN ElementsOf(env[key])
                              ELSE {}
        /\ <<>> \notin DomainSetOf(key)

\* C16: every entry of smtp.smtp_users comes from a ';'-delimited pair of
\* SMTP_USERS split on its first ':', and pairs with an empty username or
\* password are dropped: no entry has an empty username key or an empty
\* password value
C16_SmtpUsersParsed ==
    Parsed => \A u \in DOMAIN pre.smtp.smtp_users :
        /\ u # <<>>
        /\ pre.smtp.smtp_users[u] # <<>>
        /\ \E k \in 1..NumEntries(env[K_SMTP_USERS], ";") :
            LET pair == Entry(env[K_SMTP_USERS], ";", k) IN
            /\ SepPositions(pair, ":") # {}
            /\ u = Trim(BeforeFirst(pair, ":"))
            /\ pre.smtp.smtp_users[u] = Trim(AfterFirst(pair, ":"))

\* C17: in the Configuration from_environment returns, a non-empty
\* smtp.smtp_users comes with smtp.smtp_auth_enabled true
C17_UsersEnableAuth ==
    pc = "returned" =>
        (DOMAIN config.smtp.smtp_users # {} => config.smtp.smtp_auth_enabled)

\* the letters and the digits
LettersAndDigits ==
    {"a", "b", "c", "d", "e", "f", "g", "h", "i", "j", "k", "l", "m", "n",
    "o", "p", "q", "r", "s", "t", "u", "v", "w", "x", "y", "z", "A", "B",
    "C", "D", "E", "F", "G", "H", "I", "J", "K", "L", "M", "N", "O", "P",
    "Q", "R", "S", "T", "U", "V", "W", "X", "Y", "Z", "0", "1", "2", "3",
    "4", "5", "6", "7", "8", "9"}

\* SRS_SECRET is unset or empty
NoSecretSupplied ==
    K_SRS_SECRET \notin DOMAIN env \/ env[K_SRS_SECRET] = <<>>

\* C18: in the Configuration from_environment returns, srs.secret is a
\* generated string of 32 letters and digits when SRS is enabled and
\* SRS_SECRET is unset or empty, the supplied SRS_SECRET when there is one,
\* and empty when SRS is disabled and none was supplied; so srs.enabled
\* implies a non-empty srs.secret
C18_SrsSecret ==
    pc = "returned" =>
        /\ (config.srs.enabled /\ NoSecretSupplied) =>
            /\ Len(config.srs.secret) = 32
            /\ \A i \in 1..Len(config.srs.secret) :
                   config.srs.secret[i] \in LettersAndDigits
        /\ ~NoSecretSupplied => config.srs.secret = env[K_SRS_SECRET]
        /\ (~config.srs.enabled /\ NoSecretSupplied) => config.srs.secret = <<>>
        /\ config.srs.enabled => config.srs.secret # <<>>

\* C18: SRS enabled by SRS_ENABLED, an empty SRS_SECRET, a secret generated
C18_Witness ==
    /\ pc = "returned"
    /\ K_SRS_ENABLED \in DOMAIN env
    /\ K_SRS_SECRET \in DOMAIN env
    /\ env[K_SRS_SECRET] = <<>>
    /\ config.srs.enabled
    /\ Len(config.srs.secret) = 32

-----------------------------------------------------------------------------
(* Properties of the steps after validation                                *)

\* C19: after validate() has completed successfully, every collaborator
\* step leaves every field of the Configuration unchanged, except that
\* configure_srs (in configure_postfix) may write srs.domain, and only to
\* set it to smtp.hostname when it was unset
C19_ConfigFrame ==
    [][(pc \notin {"main", "from_environment"} /\ okcalls > 0) =>
        \/ config' = config
        \/ /\ pc = "configure_postfix"
           /\ ~Truthy(config.srs.domain)
           /\ config' = [config EXCEPT !.srs.domain = config.smtp.hostname]]_vars

\* C19: run() went through every step with SRS enabled and an SRS_DOMAIN of
\* its own, and the Configuration is the one validate() left
C19_Witness ==
    /\ pc = "exit" /\ rc = 0 /\ cmd = "run"
    /\ config.srs.enabled
    /\ config.srs.domain = S_sd
    /\ config.smtp.hostname # S_sd
    /\ config = validate(pre).config

\* C20: after show_config() returns 0 the formatted table has been written
\* to the process's standard output, and sys.stdout is the stream it was
\* before the call
C20_ConfigTableShown ==
    (cmd = "config" /\ pc = "exit" /\ rc = 0) =>
        /\ "configuration table" \in written
        /\ sys_stdout = "stdout"

-----------------------------------------------------------------------------
(* Properties of initialize()                                              *)

\* the steps of initialize() in the order the claim gives them
InitializeOrder(fail2ban) ==
    <<"setup_supervisor", "configure_opendkim", "configure_tls",
      "configure_postfix">>
    \o (IF fail2ban THEN <<"configure_fail2ban">> ELSE <<>>)
    \o <<"supervisord", "wait_for_supervisor">>

\* the steps taken so far that are steps of initialize()
InitializeSteps ==
    SelectSeq(steps, LAMBDA st :
        st \in {"setup_supervisor", "configure_opendkim", "configure_tls",
                "configure_postfix", "configure_fail2ban", "supervisord",
                "wait_for_supervisor"})

\* a sequence is an initial part of another
IsPrefix(p, q) == Len(p) <= Len(q) /\ SubSeq(q, 1, Len(p)) = p

\* C21: initialize() takes its steps in the order setup_supervisor,
\* configure_opendkim, configure_tls, configure_postfix, configure_fail2ban
\* (only when fail2ban is enabled), supervisord, wait_for_supervisor; when a
\* step raises or the wait times out no later step runs and run() returns 1;
\* what follows initialize() returning True (the configuration table) comes
\* only after every step was taken
C21_InitializeOrder ==
    cmd \in {"run", "initialize"} =>
        LET order == InitializeOrder(config.security.fail2ban_enabled) IN
        /\ IsPrefix(InitializeSteps, order)
        /\ (pc = "exit" /\ "show_config_table" \notin {steps[i] : i \in 1..Len(steps)})
               => rc = 1
        /\ pc \in {"show_config_table", "check_dns_records"}
               => InitializeSteps = order
        /\ (\E i \in 1..Len(steps) : steps[i] = "show_config_table")
               => InitializeSteps = order

\* C21: configure_tls raised: the steps stop there and run() returns 1
C21_Witness ==
    /\ cmd = "run" /\ pc = "exit" /\ rc = 1
    /\ steps = <<"setup_supervisor", "configure_opendkim", "configure_tls">>

\* the commands that start, reload or restart a service process: postfix
\* reload / postfix start (reload_postfix), fail2ban-client reload
\* (reload_fail2ban), supervisorctl start / restart
ServiceCommands == {"postfix", "fail2ban-client", "supervisorctl"}

\* C22: during initialize() no service process is started, reloaded or
\* restarted by a reload callback before the supervisord start step
C22_NoServiceBeforeSupervisord ==
    (\A i \in 1..Len(steps) : steps[i] # "supervisord")
        => tools \cap ServiceCommands = {}

-----------------------------------------------------------------------------
(* render_template and the service callbacks (utils.py 20-113)             *)

\* f.write(text) on a file opened with open(path, 'w'): in text mode every
\* "\n" is written as os.linesep, which is "\n" here; "\r" is written as is
RECURSIVE write_text(_)
write_text(text) ==
    IF Len(text) = 0 THEN <<>>
    ELSE <<Head(text)>> \o write_text(Tail(text))

\* f.read() on a file opened with open(path, 'r'): in text mode the line
\* endings "\r\n" and "\r" are both read as "\n"
RECURSIVE read_text(_)
read_text(content) ==
    IF Len(content) = 0 THEN <<>>
    ELSE IF Head(content) = "\r"
         THEN IF Len(content) > 1 /\ content[2] = "\n"
              THEN <<"\n">> \o read_text(SubSeq(content, 3, Len(content)))
              ELSE <<"\n">> \o read_text(Tail(content))
         ELSE <<Head(content)>> \o read_text(Tail(content))

\* template.render(**context) of a template "<head>{{ value }}<tail>": the
\* value is put between the template's texts as it is
jinja_render(template, context) == template.head \o context \o template.tail

\* register_service_callback(service_name, callback, check_func): the two
\* dictionaries afterwards
register_service_callback(cbs, chk, service_name, has_check) ==
    [service_callbacks |-> cbs \cup {service_name},
     service_check_funcs |-> IF has_check THEN chk \cup {service_name} ELSE chk]

\* the register_service_callback calls made when entrypoint.py imports
\* postfix_config (lines 45-47), dkim_config, tls_config (none) and
\* security_config (line 36), in that order
Registrations ==
    << <<"postfix", FALSE>>, <<"postsrsd", TRUE>>, <<"saslauthd", TRUE>>,
       <<"fail2ban", TRUE>> >>

RECURSIVE register_all(_, _, _)
register_all(cbs, chk, regs) ==
    IF Len(regs) = 0
    THEN [service_callbacks |-> cbs, service_check_funcs |-> chk]
    ELSE LET r == register_service_callback(cbs, chk, Head(regs)[1],
                                            Head(regs)[2]) IN
         register_all(r.service_callbacks, r.service_check_funcs, Tail(regs))

\* no service to reload: service_name=None
NoService == "None"

\* render_template(template_path, output_path, context, service_name): the
\* file system afterwards, whether the file was written (content_changed,
\* lines 84-89) and the callback that was called (lines 99-108)
render_template(files, cbs, chk, chkres, template, output_path, context, service_name) ==
    LET output_text == jinja_render(template, context)
        content_changed ==
            IF files[output_path] # None
            THEN read_text(files[output_path]) # output_text
            ELSE TRUE
        callback ==
            IF service_name # NoService /\ service_name \in cbs
            THEN IF service_name \in chk /\ ~chkres[service_name]
                 THEN NoService
                 ELSE service_name
            ELSE NoService IN
    [fs |-> IF content_changed
            THEN [files EXCEPT ![output_path] = write_text(output_text)]
            ELSE files,
     text |-> output_text,
     wrote |-> content_changed,
     called |-> IF content_changed THEN callback ELSE NoService]

\* the most calls of render_template in one behaviour
MaxRenders == 2

\* the file render_template writes, a template and the values rendered into
\* it; the last one ends in a carriage return, as a value read from a file
\* with CRLF line endings does
RenderContexts == {<<"a">>, <<"b">>, <<"a", "\r">>}
CheckedServices == {"postsrsd", "saslauthd", "fail2ban"}

InitRender ==
    /\ pc = "import"
    /\ cmd = "none"
    /\ config = DefaultConfig
    /\ pre = DefaultConfig
    /\ err = NotCalled
    /\ calls = 0
    /\ okcalls = 0
    /\ steps = <<>>
    /\ tools = {}
    /\ rc = NoRc
    /\ env = NoEnv
    /\ rule = NoRule
    /\ built = NotBuilt
    /\ sys_stdout = "stdout"
    /\ written = {}
    /\ fs = [p \in {"/etc/postfix/main.cf"} |-> None]
    /\ service_callbacks = {}
    /\ service_check_funcs = {}
    /\ checks \in [CheckedServices -> BOOLEAN]
    /\ ops = <<>>
    /\ now = 0
    /\ start_time = 0
    /\ sock = FALSE
    /\ seen = FALSE

\* entrypoint.py 21-35: importing the configuration modules runs their
\* register_service_callback calls
ImportModules ==
    /\ pc = "import"
    /\ LET r == register_all(service_callbacks, service_check_funcs,
                             Registrations) IN
       /\ service_callbacks' = r.service_callbacks
       /\ service_check_funcs' = r.service_check_funcs
    /\ pc' = "render"
    /\ UNCHANGED <<cmd, config, pre, err, calls, okcalls, steps, tools, rc,
                   envvars, outvars, fs, checks, ops, waitvars>>

\* one call of render_template; the template may be missing (the exception of
\* line 110 before anything is written) and the callback may raise (re-raised
\* after the file is written)
RenderTemplate ==
    /\ pc = "render"
    /\ Len(ops) < MaxRenders
    /\ \E template \in {[head |-> <<"h", "=">>, tail |-> <<";">>]},
          output_path \in DOMAIN fs, context \in RenderContexts,
          service_name \in {NoService, "postfix", "opendkim", "fail2ban"},
          missing \in BOOLEAN, fails \in BOOLEAN :
         LET r == render_template(fs, service_callbacks, service_check_funcs,
                                  checks, template, output_path, context,
                                  service_name) IN
         /\ fails => (~missing /\ r.called # NoService)
         /\ fs' = IF missing THEN fs ELSE r.fs
         /\ ops' = Append(ops,
                [op |-> "render_template", template |-> template,
                 context |-> context, path |-> output_path,
                 service |-> service_name,
                 before |-> fs[output_path],
                 text |-> r.text,
                 wrote |-> ~missing /\ r.wrote,
                 called |-> IF missing THEN NoService ELSE r.called,
                 raised |-> missing \/ fails])
    /\ UNCHANGED <<pc, cmd, config, pre, err, calls, okcalls, steps, tools, rc,
                   envvars, outvars, service_callbacks, service_check_funcs,
                   checks, waitvars>>

NextRender == ImportModules \/ RenderTemplate

SpecRender == InitRender /\ [][NextRender]_vars

\* the render_template calls made so far that got past loading the template
Rendered(i) == ops[i].op = "render_template" /\ (ops[i].raised => ops[i].wrote)

\* C23: render_template writes the output file only when the file is absent
\* or the rendered text differs from the file's content, calls a service's
\* callback only after such a write and only when the callback is registered
\* and its check function, if any, returns true; rendering the same template
\* with the same context twice in a row writes nothing and calls nothing the
\* second time
C23_RenderOnlyOnChange ==
    \A i \in 1..Len(ops) :
        Rendered(i) =>
            /\ ops[i].wrote <=> (ops[i].before = None \/ ops[i].before # ops[i].text)
            /\ ops[i].called # NoService =>
                   /\ ops[i].wrote
                   /\ ops[i].called = ops[i].service
                   /\ ops[i].service \in service_callbacks
                   /\ ops[i].service \in service_check_funcs
                          => checks[ops[i].service]
            /\ (i > 1 /\ Rendered(i - 1)
                  /\ ops[i - 1].template = ops[i].template
                  /\ ops[i - 1].context = ops[i].context
                  /\ ops[i - 1].path = ops[i].path)
                   => (~ops[i].wrote /\ ops[i].called = NoService)

NoCarriageReturn(t) == \A k \in 1..Len(t) : t[k] # "\r"

\* the same statement for rendered texts without a carriage return
C23_HoldsWithoutCarriageReturn ==
    \A i \in 1..Len(ops) :
        (/\ Rendered(i)
         /\ NoCarriageReturn(ops[i].text)
         /\ ops[i].before # None => NoCarriageReturn(ops[i].before)) =>
            /\ ops[i].wrote <=> (ops[i].before = None \/ ops[i].before # ops[i].text)
            /\ (i > 1 /\ Rendered(i - 1)
                  /\ ops[i - 1].template = ops[i].template
                  /\ ops[i - 1].context = ops[i].context)
                   => (~ops[i].wrote /\ ops[i].called = NoService)

\* C24: a change of an OpenDKIM configuration file reloads OpenDKIM: the
\* "opendkim" callback is registered once the modules are imported, and a
\* render_template call for the service "opendkim" that wrote its file called
\* that callback
C24_OpendkimReloaded ==
    /\ pc = "render" => "opendkim" \in service_callbacks
    /\ \A i \in 1..Len(ops) :
           (Rendered(i) /\ ops[i].service = "opendkim" /\ ops[i].wrote)
               => ops[i].called = "opendkim"

-----------------------------------------------------------------------------
(* Certificates and keys (tls_config.py 38-176, 230-329; dkim_config.py    *)
(* 27-55)                                                                  *)

CERTS_DIR == "/etc/letsencrypt/live"
POSTFIX_CERT_DIR == "/etc/postfix/certs"
HOOK_SCRIPTS_DIR == "/etc/letsencrypt/renewal-hooks/custom"
CRON_FILE == <<"/etc/cron.d/certbot-renewal">>
OPENDKIM_KEYS_DIR == "/etc/opendkim/keys"

\* os.path.join of a directory, a domain and a file name
CertPath(dir, domain) == <<dir, domain, "fullchain.pem">>
KeyPath(dir, domain) == <<dir, domain, "privkey.pem">>
HookPath(script_name) == <<HOOK_SCRIPTS_DIR, script_name>>
ParamsFile == <<"/etc/postfix/tls_params.pem">>
TlsConfigPath == <<"/etc/postfix/tls_config">>
DkimFile(domain, selector, ext) == <<OPENDKIM_KEYS_DIR, domain, selector, ext>>

\* os.path.exists
exists(files, path) == files[path] # None

\* a render_template call of a template under /templates/tls with
\* service_name None: the files afterwards
render_plain(files, name, path, context) ==
    render_template(files, {}, {}, <<>>, [head |-> <<name>>, tail |-> <<>>],
                    path, context,
                    NoService).fs

\* create_hook_scripts(config): the scripts are rendered in the order of the
\* dictionary; without a config the third one raises ValueError
create_hook_scripts(files, has_config) ==
    LET third(f2) ==
            IF ~has_config
            THEN [fs |-> f2, hooks |-> {"pre-hook.sh", "post-hook.sh"},
                  raised |-> TRUE]
            ELSE [fs |-> render_plain(f2, "renew-certificates.sh.j2",
                                      HookPath("renew-certificates.sh"), <<"c">>),
                  hooks |-> {"pre-hook.sh", "post-hook.sh",
                             "renew-certificates.sh"},
                  raised |-> FALSE]
    IN third(render_plain(
                 render_plain(files, "pre-hook.sh.j2", HookPath("pre-hook.sh"), <<>>),
                 "post-hook.sh.j2", HookPath("post-hook.sh"), <<>>))

\* a generated file holds its kind and the number of the call that made it
\* create_self_signed_cert(domain, cert_dir): results says which of the two
\* openssl commands succeed (check=True raises on a failure)
create_self_signed_cert(files, domain, cert_dir, results, stamp) ==
    LET cert_path == CertPath(cert_dir, domain)
        key_path == KeyPath(cert_dir, domain) IN
    IF exists(files, cert_path) /\ exists(files, key_path)
    THEN [fs |-> files, cmds |-> <<>>, raised |-> FALSE]
    ELSE IF ~results.genrsa
    THEN [fs |-> files, cmds |-> <<"openssl genrsa">>, raised |-> TRUE]
    ELSE LET f1 == [files EXCEPT ![key_path] = <<"key", stamp>>] IN
         IF ~results.req
         THEN [fs |-> f1, cmds |-> <<"openssl genrsa", "openssl req">>,
               raised |-> TRUE]
         ELSE [fs |-> [f1 EXCEPT ![cert_path] = <<"cert", stamp>>],
               cmds |-> <<"openssl genrsa", "openssl req">>, raised |-> FALSE]

\* the three certbot attempts of setup_certbot_for_domain, in order
Challenges == <<"tls-alpn-01:587", "tls-alpn-01:465", "http-01">>

\* lines 127-176: the attempts made when results[k] says whether the k-th
\* certbot command succeeds; a successful certbot leaves the certificate
RECURSIVE certbot_attempts(_, _, _, _, _)
certbot_attempts(files, domain, results, stamp, k) ==
    IF results[k]
    THEN [fs |-> [files EXCEPT ![CertPath(CERTS_DIR, domain)] = <<"cert", stamp>>,
                               ![KeyPath(CERTS_DIR, domain)] = <<"key", stamp>>],
          cmds |-> SubSeq(Challenges, 1, k), raised |-> FALSE]
    ELSE IF k = Len(Challenges)
    THEN [fs |-> files, cmds |-> Challenges, raised |-> TRUE]
    ELSE certbot_attempts(files, domain, results, stamp, k + 1)

\* setup_certbot_for_domain(domain, email, staging): create_hook_scripts is
\* called without a config (line 119)
setup_certbot_for_domain(files, domain, results, stamp) ==
    LET attempted(h, a) ==
            [fs |-> a.fs, cmds |-> a.cmds, hooks |-> h.hooks,
             raised |-> a.raised]
        hooked(h) ==
            IF h.raised
            THEN [fs |-> h.fs, cmds |-> <<>>, hooks |-> h.hooks, raised |-> TRUE]
            ELSE attempted(h, certbot_attempts(h.fs, domain, results, stamp, 1))
    IN
    IF exists(files, CertPath(CERTS_DIR, domain))
       /\ exists(files, KeyPath(CERTS_DIR, domain))
    THEN [fs |-> files, cmds |-> <<>>, hooks |-> {}, raised |-> FALSE]
    ELSE hooked(create_hook_scripts(files, FALSE))

\* faulty variant of ensure_dkim_key: only the private key is looked for
ensure_dkim_key_key_only(files, domain, selector, result, stamp) ==
    LET key_file == DkimFile(domain, selector, "private")
        txt_file == DkimFile(domain, selector, "txt") IN
    IF exists(files, key_file)
    THEN [fs |-> files, cmds |-> <<>>, raised |-> FALSE]
    ELSE IF result = "ok"
    THEN [fs |-> [files EXCEPT ![key_file] = <<"key", stamp>>,
                               ![txt_file] = <<"txt", stamp>>],
          cmds |-> <<"opendkim-genkey">>, raised |-> FALSE]
    ELSE [fs |-> IF result = "partial"
                 THEN [files EXCEPT ![key_file] = <<"key", stamp>>]
                 ELSE files,
          cmds |-> <<"opendkim-genkey">>, raised |-> TRUE]

\* ensure_dkim_key(domain, selector, key_size): opendkim-genkey writes the
\* private key and then the TXT file; when it fails (check=True raises) it
\* may have written the key already
ensure_dkim_key(files, domain, selector, result, stamp) ==
    LET key_file == DkimFile(domain, selector, "private")
        txt_file == DkimFile(domain, selector, "txt") IN
    IF exists(files, key_file) /\ exists(files, txt_file)
    THEN [fs |-> files, cmds |-> <<>>, raised |-> FALSE]
    ELSE IF result = "ok"
    THEN [fs |-> [files EXCEPT ![key_file] = <<"key", stamp>>,
                               ![txt_file] = <<"txt", stamp>>],
          cmds |-> <<"opendkim-genkey">>, raised |-> FALSE]
    ELSE [fs |-> IF result = "partial"
                 THEN [files EXCEPT ![key_file] = <<"key", stamp>>]
                 ELSE files,
          cmds |-> <<"opendkim-genkey">>, raised |-> TRUE]

\* configure_tls 278-306: the loop over config.tls.domains, taken in the
\* order the set is iterated in; an exception ends the loop
RECURSIVE tls_domains(_, _, _, _, _)
tls_domains(files, use_letsencrypt, order, results, stamp) ==
    IF Len(order) = 0
    THEN [fs |-> files, cmds |-> <<>>, raised |-> FALSE, processed |-> <<>>]
    ELSE
      LET domain == Head(order)
          cert_src == CertPath(CERTS_DIR, domain)
          key_src == KeyPath(CERTS_DIR, domain)
          self_signed(le, c) ==
              [fs |-> c.fs, cmds |-> le.cmds \o c.cmds, raised |-> c.raised]
          placed(le) ==
              IF le.raised
              THEN [fs |-> le.fs, cmds |-> le.cmds, raised |-> TRUE]
              ELSE IF use_letsencrypt /\ exists(le.fs, cert_src)
                      /\ exists(le.fs, key_src)
              THEN [fs |-> [le.fs EXCEPT
                              ![CertPath(POSTFIX_CERT_DIR, domain)] = le.fs[cert_src],
                              ![KeyPath(POSTFIX_CERT_DIR, domain)] = le.fs[key_src]],
                    cmds |-> le.cmds, raised |-> FALSE]
              ELSE self_signed(le, create_self_signed_cert(le.fs, domain,
                                       POSTFIX_CERT_DIR, results, stamp))
          joined(one, rest) ==
              [fs |-> rest.fs, cmds |-> one.cmds \o rest.cmds,
               raised |-> rest.raised,
               processed |-> <<domain>> \o rest.processed]
          continued(one) ==
              IF one.raised
              THEN [fs |-> one.fs, cmds |-> one.cmds, raised |-> TRUE,
                    processed |-> <<>>]
              ELSE joined(one, tls_domains(one.fs, use_letsencrypt, Tail(order),
                                           results, stamp))
      IN
      continued(placed(
          IF use_letsencrypt
          THEN setup_certbot_for_domain(files, domain, results.certbot, stamp)
          ELSE [fs |-> files, cmds |-> <<>>, hooks |-> {}, raised |-> FALSE]))

\* configure_tls(config): the files afterwards, the commands run, the domains
\* whose certificate was put in place, and whether the function returned
\* (completed) or raised
configure_tls(files, cbs, chk, chkres, tls, order, results, random_minute, stamp) ==
    LET rendered(loop, cmds3, r) ==
            [fs |-> r.fs, cmds |-> cmds3,
             raised |-> r.called # NoService /\ ~results.postfix,
             completed |-> ~(r.called # NoService /\ ~results.postfix),
             processed |-> loop.processed, called |-> r.called]
        with_params(loop, f3, cmds3) ==
            rendered(loop, cmds3,
                     render_template(f3, cbs, chk, chkres,
                                     [head |-> <<"tls_config.j2">>, tail |-> <<>>],
                                     TlsConfigPath, <<"c">>, "postfix"))
        looped(loop) ==
            IF loop.raised
            THEN [fs |-> loop.fs, cmds |-> loop.cmds, raised |-> TRUE,
                  completed |-> FALSE, processed |-> loop.processed,
                  called |-> NoService]
            ELSE IF exists(loop.fs, ParamsFile)
            THEN with_params(loop, loop.fs, loop.cmds)
            ELSE IF ~results.dhparam
            THEN [fs |-> loop.fs, cmds |-> loop.cmds \o <<"openssl dhparam">>,
                  raised |-> TRUE, completed |-> FALSE,
                  processed |-> loop.processed, called |-> NoService]
            ELSE with_params(loop,
                             [loop.fs EXCEPT ![ParamsFile] = <<"dh", stamp>>],
                             loop.cmds \o <<"openssl dhparam">>)
    IN
    IF ~tls.enabled
    THEN [fs |-> files, cmds |-> <<>>, raised |-> FALSE, completed |-> TRUE,
          processed |-> <<>>, called |-> NoService]
    ELSE looped(tls_domains(
             render_plain(
                 render_plain(create_hook_scripts(files, TRUE).fs,
                              "certbot-renewal.conf.j2",
                              <<"/etc/letsencrypt", "renewal.conf">>, <<"c">>),
                 "certbot-cron.j2", CRON_FILE, <<random_minute>>),
             tls.use_letsencrypt, order, results, stamp))

\* the most provisioning calls in one behaviour
MaxOps == 2

\* the TLS domains, the DKIM domain and selector of the checked behaviours
D_a == <<"a">>
TlsDomains == {D_a, <<"b">>}
DkimSelector == <<"m">>

TlsPaths ==
    {CertPath(dir, d) : dir \in {CERTS_DIR, POSTFIX_CERT_DIR}, d \in TlsDomains}
    \cup {KeyPath(dir, d) : dir \in {CERTS_DIR, POSTFIX_CERT_DIR}, d \in TlsDomains}
    \cup {HookPath(n) : n \in {"pre-hook.sh", "post-hook.sh", "renew-certificates.sh"}}
    \cup {<<"/etc/letsencrypt", "renewal.conf">>, CRON_FILE, ParamsFile, TlsConfigPath,
          DkimFile(D_a, DkimSelector, "private"), DkimFile(D_a, DkimSelector, "txt")}

\* a container started on a /etc/letsencrypt volume that holds, for each
\* domain, no certificate, a certificate with its key, or a certificate only
InitTls ==
    /\ pc = "provision"
    /\ cmd = "none"
    /\ \E enabled \in BOOLEAN, use_letsencrypt \in BOOLEAN :
         /\ (~enabled) => use_letsencrypt
         /\ config = [DefaultConfig EXCEPT !.tls =
                         [enabled |-> enabled, email |-> <<>>,
                          domains |-> TlsDomains,
                          use_letsencrypt |-> use_letsencrypt]]
    /\ pre = DefaultConfig
    /\ err = NotCalled
    /\ calls = 0
    /\ okcalls = 0
    /\ steps = <<>>
    /\ tools = {}
    /\ rc = NoRc
    /\ env = NoEnv
    /\ rule = NoRule
    /\ built = NotBuilt
    /\ sys_stdout = "stdout"
    /\ written = {}
    /\ \E le \in [TlsDomains -> {"none", "both", "cert"}] :
         fs = [p \in TlsPaths |->
                 IF \E d \in TlsDomains :
                       \/ p = CertPath(CERTS_DIR, d) /\ le[d] # "none"
                       \/ p = KeyPath(CERTS_DIR, d) /\ le[d] = "both"
                 THEN <<"volume", 0>>
                 ELSE None]
    /\ service_callbacks = register_all({}, {}, Registrations).service_callbacks
    /\ service_check_funcs = register_all({}, {}, Registrations).service_check_funcs
    /\ checks = [s \in CheckedServices |-> TRUE]
    /\ ops = <<>>
    /\ now = 0
    /\ start_time = 0
    /\ sock = FALSE
    /\ seen = FALSE

\* what the external commands of a call do: the kind of command that fails,
\* if any, and the certbot attempt that succeeds, if any
CommandResults(failing, succeeds) ==
    [genrsa |-> failing # "genrsa", req |-> failing # "req",
     dhparam |-> failing # "dhparam", postfix |-> failing # "postfix",
     certbot |-> [k \in 1..3 |-> k = succeeds]]

\* a call of setup_certbot_for_domain
CallSetupCertbot ==
    /\ pc = "provision"
    /\ Len(ops) < MaxOps
    /\ \E domain \in TlsDomains, succeeds \in 0..3 :
         LET r == setup_certbot_for_domain(fs, domain,
                      CommandResults("none", succeeds).certbot, Len(ops) + 1) IN
         /\ fs' = r.fs
         /\ ops' = Append(ops,
                [op |-> "setup_certbot_for_domain", domain |-> domain,
                 before |-> fs, after |-> r.fs, failing |-> "none",
                 cmds |-> r.cmds, hooks |-> r.hooks, raised |-> r.raised])
    /\ UNCHANGED <<pc, cmd, config, pre, err, calls, okcalls, steps, tools, rc,
                   envvars, outvars, service_callbacks, service_check_funcs,
                   checks, waitvars>>

\* a call of create_self_signed_cert for the Postfix certificate directory
CallCreateSelfSignedCert ==
    /\ pc = "provision"
    /\ Len(ops) < MaxOps
    /\ \E domain \in TlsDomains, failing \in {"none", "genrsa", "req"} :
         LET r == create_self_signed_cert(fs, domain, POSTFIX_CERT_DIR,
                      CommandResults(failing, 0), Len(ops) + 1) IN
         /\ fs' = r.fs
         /\ ops' = Append(ops,
                [op |-> "create_self_signed_cert", domain |-> domain,
                 before |-> fs, after |-> r.fs, failing |-> failing,
                 cmds |-> r.cmds, hooks |-> {}, raised |-> r.raised])
    /\ UNCHANGED <<pc, cmd, config, pre, err, calls, okcalls, steps, tools, rc,
                   envvars, outvars, service_callbacks, service_check_funcs,
                   checks, waitvars>>

\* a call of ensure_dkim_key
CallEnsureDkimKey ==
    /\ pc = "provision"
    /\ Len(ops) < MaxOps
    /\ \E result \in {"ok", "fail", "partial"} :
         LET r == ensure_dkim_key(fs, D_a, DkimSelector, result, Len(ops) + 1) IN
         /\ fs' = r.fs
         /\ ops' = Append(ops,
                [op |-> "ensure_dkim_key", domain |-> D_a,
                 before |-> fs, after |-> r.fs, failing |-> result,
                 cmds |-> r.cmds, hooks |-> {}, raised |-> r.raised])
    /\ UNCHANGED <<pc, cmd, config, pre, err, calls, okcalls, steps, tools, rc,
                   envvars, outvars, service_callbacks, service_check_funcs,
                   checks, waitvars>>

\* a call of configure_tls(config)
CallConfigureTls ==
    /\ pc = "provision"
    /\ Len(ops) < MaxOps
    /\ \E order \in {o \in [1..Cardinality(config.tls.domains) -> config.tls.domains] :
                      \A d \in config.tls.domains : \E k \in DOMAIN o : o[k] = d},
          failing \in {"none", "genrsa", "req", "dhparam", "postfix"},
          succeeds \in 0..3, random_minute \in {"17"} :
         LET r == configure_tls(fs, service_callbacks, service_check_funcs,
                                checks, config.tls, order,
                                CommandResults(failing, succeeds),
                                random_minute, Len(ops) + 1) IN
         /\ fs' = r.fs
         /\ ops' = Append(ops,
                [op |-> "configure_tls", domain |-> order,
                 before |-> fs, after |-> r.fs, failing |-> failing,
                 cmds |-> r.cmds, hooks |-> {}, raised |-> r.raised,
                 completed |-> r.completed, processed |-> r.processed])
    /\ UNCHANGED <<pc, cmd, config, pre, err, calls, okcalls, steps, tools, rc,
                   envvars, outvars, service_callbacks, service_check_funcs,
                   checks, waitvars>>

NextTls ==
    \/ CallSetupCertbot
    \/ CallCreateSelfSignedCert
    \/ CallEnsureDkimKey
    \/ CallConfigureTls

SpecTls == InitTls /\ [][NextTls]_vars

\* both files of a pair exist
HasBoth(files, p, q) == exists(files, p) /\ exists(files, q)

HadCertificate(i) ==
    HasBoth(ops[i].before, CertPath(CERTS_DIR, ops[i].domain),
            KeyPath(CERTS_DIR, ops[i].domain))

\* C25: for a domain without a certificate, setup_certbot_for_domain runs
\* certbot with TLS-ALPN-01 on port 587 first, then on port 465, then with
\* HTTP-01, stops at the first attempt that succeeds, and raises only when
\* all three attempts failed
C25_CertbotAttempts ==
    \A i \in 1..Len(ops) :
        (ops[i].op = "setup_certbot_for_domain" /\ ~HadCertificate(i)) =>
            /\ Len(ops[i].cmds) >= 1
            /\ IsPrefix(ops[i].cmds, Challenges)
            /\ ops[i].raised => ops[i].cmds = Challenges
            /\ ~ops[i].raised =>
                   HasBoth(ops[i].after, CertPath(CERTS_DIR, ops[i].domain),
                           KeyPath(CERTS_DIR, ops[i].domain))

\* C26: configure_tls with use_letsencrypt, for a domain whose Let's Encrypt
\* certificate files are not found, creates a self-signed certificate in the
\* Postfix certificate directory, goes on to the remaining domains and
\* completes (the openssl and postfix commands succeeding)
C26_SelfSignedFallback ==
    \A i \in 1..Len(ops) :
        (/\ ops[i].op = "configure_tls"
         /\ config.tls.enabled /\ config.tls.use_letsencrypt
         /\ ops[i].failing = "none") =>
            /\ ops[i].completed
            /\ Len(ops[i].processed) = Cardinality(config.tls.domains)
            /\ \A d \in config.tls.domains :
                   ~HasBoth(ops[i].after, CertPath(CERTS_DIR, d), KeyPath(CERTS_DIR, d))
                       => HasBoth(ops[i].after, CertPath(POSTFIX_CERT_DIR, d),
                                  KeyPath(POSTFIX_CERT_DIR, d))

\* the files that hold keys and certificates
KeyFiles ==
    TlsPaths \ ({HookPath(n) : n \in {"pre-hook.sh", "post-hook.sh",
                                      "renew-certificates.sh"}}
                \cup {<<"/etc/letsencrypt", "renewal.conf">>, CRON_FILE, TlsConfigPath})

\* C27: generation is skipped when the artefacts exist:
\* setup_certbot_for_domain runs no certbot command and renders no hook
\* script when fullchain.pem and privkey.pem both exist; ensure_dkim_key runs
\* opendkim-genkey exactly when the private key or the TXT file is missing;
\* create_self_signed_cert runs openssl exactly when the certificate or the
\* key is missing; a call repeated right after it succeeded runs no command
\* and leaves every key and certificate as it was
C27_GenerationSkipped ==
    \A i \in 1..Len(ops) :
        /\ (ops[i].op = "setup_certbot_for_domain" /\ HadCertificate(i)) =>
               /\ ops[i].cmds = <<>> /\ ops[i].hooks = {}
               /\ ~ops[i].raised /\ ops[i].after = ops[i].before
        /\ ops[i].op = "ensure_dkim_key" =>
               (ops[i].cmds # <<>> <=>
                   ~HasBoth(ops[i].before, DkimFile(ops[i].domain, DkimSelector, "private"),
                            DkimFile(ops[i].domain, DkimSelector, "txt")))
        /\ ops[i].op = "create_self_signed_cert" =>
               (ops[i].cmds # <<>> <=>
                   ~HasBoth(ops[i].before, CertPath(POSTFIX_CERT_DIR, ops[i].domain),
                            KeyPath(POSTFIX_CERT_DIR, ops[i].domain)))
        /\ (i > 1 /\ ops[i - 1].op = ops[i].op
                  /\ ops[i - 1].domain = ops[i].domain
                  /\ ~ops[i - 1].raised) =>
               /\ ops[i].cmds = <<>>
               /\ \A p \in KeyFiles : ops[i].after[p] = ops[i].before[p]

\* ensure_dkim_key generated a key, and the same call again generated nothing
C27_Witness ==
    /\ Len(ops) = 2
    /\ ops[1].op = "ensure_dkim_key" /\ ops[2].op = "ensure_dkim_key"
    /\ ops[1].cmds = <<"opendkim-genkey">> /\ ~ops[1].raised
    /\ ops[2].cmds = <<>>
    /\ fs[DkimFile(D_a, DkimSelector, "private")] = <<"key", 1>>

-----------------------------------------------------------------------------
(* wait_for_supervisor (entrypoint.py 148-163)                             *)

\* wait_for_supervisor(timeout=30)
timeout == 30

\* the longest time.sleep(1) takes, and the latest clock reading at the call
MaxSleep == 2
MaxStart == 2

InitWait ==
    /\ pc = "wait_start"
    /\ cmd = "none"
    /\ config = DefaultConfig
    /\ pre = DefaultConfig
    /\ err = NotCalled
    /\ calls = 0
    /\ okcalls = 0
    /\ steps = <<>>
    /\ tools = {}
    /\ rc = NoRc
    /\ env = NoEnv
    /\ rule = NoRule
    /\ built = NotBuilt
    /\ sys_stdout = "stdout"
    /\ written = {}
    /\ fs = <<>>
    /\ service_callbacks = {}
    /\ service_check_funcs = {}
    /\ checks = <<>>
    /\ ops = <<>>
    /\ now \in 0..MaxStart
    /\ start_time = 0
    /\ sock \in BOOLEAN
    /\ seen = FALSE

\* line 155: start_time = time.time()
WaitStart ==
    /\ pc = "wait_start"
    /\ start_time' = now
    /\ pc' = "wait_test"
    /\ UNCHANGED <<now, sock, seen>>
    /\ UNCHANGED <<cmd, config, pre, err, calls, okcalls, steps, tools, rc,
                   envvars, outvars, sysvars>>

\* line 156: while time.time() - start_time < timeout; lines 162-163 when the
\* test fails
WaitTest ==
    /\ pc = "wait_test"
    /\ pc' = IF now - start_time < timeout THEN "wait_poll" ELSE "return_false"
    /\ UNCHANGED waitvars
    /\ UNCHANGED <<cmd, config, pre, err, calls, okcalls, steps, tools, rc,
                   envvars, outvars, sysvars>>

\* lines 157-159: if is_supervisor_ready(): return True
WaitPoll ==
    /\ pc = "wait_poll"
    /\ seen' = sock
    /\ pc' = IF sock THEN "return_true" ELSE "wait_sleep"
    /\ UNCHANGED <<now, start_time, sock>>
    /\ UNCHANGED <<cmd, config, pre, err, calls, okcalls, steps, tools, rc,
                   envvars, outvars, sysvars>>

\* faulty variant of WaitSleep: the sleep takes no time
WaitSleep_notime ==
    /\ pc = "wait_sleep"
    /\ now' = now
    /\ pc' = "wait_test"
    /\ UNCHANGED <<start_time, sock, seen>>
    /\ UNCHANGED <<cmd, config, pre, err, calls, okcalls, steps, tools, rc,
                   envvars, outvars, sysvars>>

\* line 161: time.sleep(1) suspends the process for a second or longer
WaitSleep ==
    /\ pc = "wait_sleep"
    /\ \E d \in 1..MaxSleep : now' = now + d
    /\ pc' = "wait_test"
    /\ UNCHANGED <<start_time, sock, seen>>
    /\ UNCHANGED <<cmd, config, pre, err, calls, okcalls, steps, tools, rc,
                   envvars, outvars, sysvars>>

\* supervisord creates /var/run/supervisor.sock at some time, or never
SocketAppears ==
    /\ pc \in {"wait_start", "wait_test", "wait_poll", "wait_sleep"}
    /\ ~sock
    /\ sock' = TRUE
    /\ UNCHANGED <<pc, now, start_time, seen>>
    /\ UNCHANGED <<cmd, config, pre, err, calls, okcalls, steps, tools, rc,
                   envvars, outvars, sysvars>>

NextWait == WaitStart \/ WaitTest \/ WaitPoll \/ WaitSleep \/ SocketAppears

\* the process running wait_for_supervisor keeps running and time.sleep
\* returns: a step of the function that can be taken is taken
SpecWait ==
    /\ InitWait /\ [][NextWait]_vars
    /\ WF_vars(WaitStart \/ WaitTest \/ WaitPoll \/ WaitSleep)

\* C28: wait_for_supervisor always returns; it returns True at the poll that
\* finds the socket and never without having found it, and returns False only
\* once the timeout has gone by since the start with no poll having found the
\* socket
C28_WaitTerminates ==
    /\ <>(pc \in {"return_true", "return_false"})
    /\ [](pc = "return_true" => (seen /\ sock))
    /\ [](seen => pc = "return_true")
    /\ [](pc = "return_false" => (~seen /\ now - start_time >= timeout))

\* the function returned False: the timeout went by and the socket never
\* appeared
C28_Witness == pc = "return_false" /\ ~sock /\ now - start_time >= timeout

=============================================================================
